---- MODULE Spec2Model ----
(***************************************************************************)
(* Document verification engine of cv_poc                                  *)
(* (src/services/document_verifier.py).                                    *)
(*                                                                         *)
(* Strings are sequences of one-character strings, so that strip, lower,   *)
(* split and strptime can be modelled by what they do to the characters.   *)
(* A threshold and a similarity are integers in hundredths (0.85 is 85).   *)
(***************************************************************************)
EXTENDS Integers, Sequences, FiniteSets, TLC

\* db holds the persisted records; the pure functions never touch it
VARIABLES pc, args, ret, calls, db

vars == <<pc, args, ret, calls, db>>

----------------------------------------------------------------------------
(* Bounds                                                                  *)

MaxLen == 3

MaxPad == 1

MaxComps == 2

----------------------------------------------------------------------------
(* Python values                                                           *)

\* the store as seen by code that has no access to it
NoDb == [workers |-> <<>>]

\* Python's None, kept apart from every string (no character is "None")
None == <<"None">>

\* truth value of an Optional[str]: None and "" are falsy
Truthy(v) == v # None /\ v # <<>>

\* `v or ""`
OrEmpty(v) == IF Truthy(v) THEN v ELSE <<>>

Lowercase ==
  ("A" :> "a") @@ ("B" :> "b") @@ ("D" :> "d") @@ ("E" :> "e") @@
  ("F" :> "f") @@ ("G" :> "g") @@ ("J" :> "j") @@ ("N" :> "n") @@
  ("P" :> "p") @@ ("T" :> "t") @@ ("X" :> "x")

LowerChar(c) == IF c \in DOMAIN Lowercase THEN Lowercase[c] ELSE c

\* str.lower()
lower(s) == [i \in 1..Len(s) |-> LowerChar(s[i])]

IsSpace(c) == c = " "

RECURSIVE lstrip(_)
lstrip(s) == IF s # <<>> /\ IsSpace(Head(s)) THEN lstrip(Tail(s)) ELSE s

RECURSIVE rstrip(_)
rstrip(s) ==
  IF s # <<>> /\ IsSpace(s[Len(s)]) THEN rstrip(SubSeq(s, 1, Len(s) - 1)) ELSE s

\* str.strip()
strip(s) == rstrip(lstrip(s))

\* str.split(): the maximal runs of non-whitespace characters, in order
RECURSIVE splitWords(_, _, _)
splitWords(s, cur, acc) ==
  IF s = <<>> THEN (IF cur = <<>> THEN acc ELSE Append(acc, cur))
  ELSE IF IsSpace(Head(s))
       THEN splitWords(Tail(s), <<>>, IF cur = <<>> THEN acc ELSE Append(acc, cur))
       ELSE splitWords(Tail(s), Append(cur, Head(s)), acc)

split(s) == splitWords(s, <<>>, <<>>)

\* " ".join(words)
RECURSIVE join(_)
join(words) ==
  IF words = <<>> THEN <<>>
  ELSE IF Len(words) = 1 THEN words[1]
  ELSE words[1] \o <<" ">> \o join(Tail(words))

\* int(round(n / d)) for n >= 0, d > 0: Python rounds a half to the even side
RoundHalfEven(n, d) ==
  LET q == n \div d
      r == n % d
  IN  IF 2 * r < d THEN q
      ELSE IF 2 * r > d THEN q + 1
      ELSE IF q % 2 = 0 THEN q ELSE q + 1

----------------------------------------------------------------------------
(* fuzz.ratio and fuzzy_match_name                                         *)

\* length of a longest common subsequence
RECURSIVE LCSLen(_, _)
LCSLen(a, b) ==
  IF a = <<>> \/ b = <<>> THEN 0
  ELSE IF Head(a) = Head(b) THEN 1 + LCSLen(Tail(a), Tail(b))
  ELSE LET x == LCSLen(Tail(a), b)
           y == LCSLen(a, Tail(b))
       IN  IF x >= y THEN x ELSE y

\* fuzz.ratio(s1, s2), 0..100: equal strings give 100, an empty string gives 0,
\* otherwise the Levenshtein ratio 2*M/T rounded to an integer percentage
fuzz_ratio(s1, s2) ==
  IF s1 = s2 THEN 100
  ELSE IF Len(s1) = 0 \/ Len(s2) = 0 THEN 0
  ELSE RoundHalfEven(200 * LCSLen(s1, s2), Len(s1) + Len(s2))

\* " ".join(name.strip().lower().split())
NormalizeSpaces(name) == join(split(lower(strip(name))))

\* the returned pair, with `>` in place of `>=`
MatchVerdict_strict(similarity_percent, threshold) ==
  [similarity |-> similarity_percent,
   is_match   |-> similarity_percent > threshold]

\* (similarity_score, similarity_score >= threshold)
MatchVerdict(similarity_percent, threshold) ==
  [similarity |-> similarity_percent,
   is_match   |-> similarity_percent >= threshold]

\* fuzzy_match_name(name1, name2, threshold) -> (similarity_score, is_match)
fuzzy_match_name(name1, name2, threshold) ==
  IF ~Truthy(name1) \/ ~Truthy(name2)
  THEN [similarity |-> 0, is_match |-> FALSE]
  ELSE MatchVerdict(fuzz_ratio(NormalizeSpaces(name1), NormalizeSpaces(name2)),
                    threshold)

----------------------------------------------------------------------------
(* Inputs of the name matcher                                              *)

NameChars == {"a", "A", "b", " "}

Strings(n) == UNION {[1..k -> NameChars] : k \in 0..n}

\* thresholds in hundredths: 0.0, 0.85 (the default), 1.0 and 1.2
Thresholds == {0, 85, 100, 120}

InitName ==
  /\ pc = "call"
  /\ args \in [name1 : Strings(MaxLen), name2 : Strings(MaxLen),
               threshold : Thresholds]
  /\ ret = None
  /\ calls = <<>>
  /\ db = NoDb

Call_fuzzy_match_name ==
  /\ pc = "call"
  /\ DOMAIN args = {"name1", "name2", "threshold"}
  /\ ret' = fuzzy_match_name(args.name1, args.name2, args.threshold)
  /\ calls' = <<"fuzzy_match_name">>
  /\ pc' = "done"
  /\ UNCHANGED <<args, db>>

NextName == Call_fuzzy_match_name

SpecName == InitName /\ [][NextName]_vars

\* C10: fuzzy_match_name(x, x, t) is (1.0, true) for every non-empty x, the
\* whitespace-only strings included, and every threshold t <= 1.0
C10_SelfMatch ==
  (pc = "done" /\ args.name1 = args.name2 /\ args.name1 # <<>>
     /\ args.threshold <= 100)
    => (ret.similarity = 100 /\ ret.is_match)

\* a whitespace-only name was matched against itself at threshold 1.0
C10_Witness ==
  /\ pc = "done"
  /\ args.name1 = <<" ", " ">>
  /\ args.name2 = args.name1
  /\ args.threshold = 100
  /\ ret.is_match

----------------------------------------------------------------------------
(* datetime.strptime(s, "%Y-%m-%d") and exact_match_dob                    *)

DigitVal ==
  ("0" :> 0) @@ ("1" :> 1) @@ ("2" :> 2) @@ ("3" :> 3) @@ ("4" :> 4) @@
  ("5" :> 5) @@ ("6" :> 6) @@ ("7" :> 7) @@ ("8" :> 8) @@ ("9" :> 9)

IsDigit(c) == c \in DOMAIN DigitVal

IsNonZeroDigit(c) == IsDigit(c) /\ c # "0"

\* int(digits); a blank counts as a leading zero (the " 1" form of %d)
RECURSIVE ToInt(_)
ToInt(p) ==
  IF p = <<>> THEN 0
  ELSE 10 * ToInt(SubSeq(p, 1, Len(p) - 1))
       + (IF IsDigit(p[Len(p)]) THEN DigitVal[p[Len(p)]] ELSE 0)

\* the parts of s between the occurrences of the character sep
RECURSIVE splitOn(_, _, _, _)
splitOn(s, sep, cur, acc) ==
  IF s = <<>> THEN Append(acc, cur)
  ELSE IF Head(s) = sep THEN splitOn(Tail(s), sep, <<>>, Append(acc, cur))
  ELSE splitOn(Tail(s), sep, Append(cur, Head(s)), acc)

\* %Y : \d\d\d\d
MatchY(p) == Len(p) = 4 /\ \A i \in 1..4 : IsDigit(p[i])

\* %m : 1[0-2]|0[1-9]|[1-9]
MatchM(p) ==
  \/ Len(p) = 2 /\ p[1] = "1" /\ p[2] \in {"0", "1", "2"}
  \/ Len(p) = 2 /\ p[1] = "0" /\ IsNonZeroDigit(p[2])
  \/ Len(p) = 1 /\ IsNonZeroDigit(p[1])

\* %d : 3[01]|[12]\d|0[1-9]|[1-9]| [1-9]
MatchD(p) ==
  \/ Len(p) = 2 /\ p[1] = "3" /\ p[2] \in {"0", "1"}
  \/ Len(p) = 2 /\ p[1] \in {"1", "2"} /\ IsDigit(p[2])
  \/ Len(p) = 2 /\ p[1] = "0" /\ IsNonZeroDigit(p[2])
  \/ Len(p) = 1 /\ IsNonZeroDigit(p[1])
  \/ Len(p) = 2 /\ p[1] = " " /\ IsNonZeroDigit(p[2])

IsLeap(y) == y % 4 = 0 /\ (y % 100 # 0 \/ y % 400 = 0)

DaysInMonth(y, m) ==
  IF m = 2 THEN (IF IsLeap(y) THEN 29 ELSE 28)
  ELSE IF m \in {4, 6, 9, 11} THEN 30 ELSE 31

BadDate == [exc |-> "ValueError", year |-> 0, month |-> 0, day |-> 0]

\* datetime.date(y, m, d) of the matched groups
DateOf(y, m, d) ==
  IF y >= 1 /\ d <= DaysInMonth(y, m)
  THEN [exc |-> "none", year |-> y, month |-> m, day |-> d]
  ELSE BadDate

\* the match of the format against the three "-"-separated parts
ParseParts(parts) ==
  IF Len(parts) # 3 THEN BadDate
  ELSE IF ~(MatchY(parts[1]) /\ MatchM(parts[2]) /\ MatchD(parts[3])) THEN BadDate
  ELSE DateOf(ToInt(parts[1]), ToInt(parts[2]), ToInt(parts[3]))

\* datetime.strptime(s, "%Y-%m-%d").date(): exc is "ValueError" where Python
\* raises it (the text does not match the format, or is no calendar date)
strptime(s) == ParseParts(splitOn(s, "-", <<>>, <<>>))

\* the exceptions the handler of exact_match_dob catches
CaughtByExactMatchDob == {"ValueError", "TypeError"}

\* the try block comparing the stripped texts instead of the parsed dates
CompareDates_text(date1, date2, text1, text2) ==
  IF date1.exc = "none" /\ date2.exc = "none"
  THEN [value |-> text1 = text2, raised |-> "none"]
  ELSE IF date1.exc \in CaughtByExactMatchDob \cup {"none"}
          /\ date2.exc \in CaughtByExactMatchDob \cup {"none"}
  THEN [value |-> FALSE, raised |-> "none"]
  ELSE [value |-> FALSE, raised |-> "uncaught"]

\* the try block of exact_match_dob on the two parse outcomes: date equality,
\* False where a caught exception was raised; raised is "none" when the
\* function returns
CompareDates(date1, date2, text1, text2) ==
  IF date1.exc = "none" /\ date2.exc = "none"
  THEN [value |-> date1 = date2, raised |-> "none"]
  ELSE IF date1.exc \in CaughtByExactMatchDob \cup {"none"}
          /\ date2.exc \in CaughtByExactMatchDob \cup {"none"}
  THEN [value |-> FALSE, raised |-> "none"]
  ELSE [value |-> FALSE, raised |-> "uncaught"]

\* exact_match_dob(dob1, dob2) -> bool
exact_match_dob(dob1, dob2) ==
  IF ~Truthy(dob1) \/ ~Truthy(dob2) THEN [value |-> FALSE, raised |-> "none"]
  ELSE CompareDates(strptime(strip(dob1)), strptime(strip(dob2)),
                    strip(dob1), strip(dob2))

----------------------------------------------------------------------------
(* Inputs of the date matcher                                              *)

DobYears == {<<"2", "0", "0", "0">>, <<"1", "9", "0", "0">>, <<"9", "8">>}

DobMonths == {<<"0", "2">>, <<"2">>, <<"1", "2">>, <<"1", "3">>}

DobDays ==
  {<<"2", "9">>, <<"0", "1">>, <<"1">>, <<" ", "1">>, <<"3", "1">>, <<"3", "2">>}

DobSeps == {<<"-">>, <<"/">>}

Blanks(n) == [i \in 1..n |-> " "]

\* year, month and day texts in either order, with equal blank padding
DobTexts ==
  {Blanks(k) \o y \o s \o m \o s \o d \o Blanks(k) :
     y \in DobYears, m \in DobMonths, d \in DobDays, s \in DobSeps,
     k \in 0..MaxPad}
  \cup {d \o s \o m \o s \o y :
     y \in DobYears, m \in {<<"0", "2">>}, d \in {<<"0", "1">>}, s \in DobSeps}

DobInputs == DobTexts \cup {None, <<>>, <<" ">>, <<"a">>}

InitDob ==
  /\ pc = "call"
  /\ args \in [dob1 : DobInputs, dob2 : DobInputs]
  /\ ret = None
  /\ calls = <<>>
  /\ db = NoDb

Call_exact_match_dob ==
  /\ pc = "call"
  /\ DOMAIN args = {"dob1", "dob2"}
  /\ ret' = exact_match_dob(args.dob1, args.dob2)
  /\ calls' = <<"exact_match_dob">>
  /\ pc' = "done"
  /\ UNCHANGED <<args, db>>

NextDob == Call_exact_match_dob

SpecDob == InitDob /\ [][NextDob]_vars

\* the text is a date written YYYY-MM-DD (surrounding blanks aside)
ParsesAsDate(v) == Truthy(v) /\ strptime(strip(v)).exc = "none"

\* the calendar day the text names, as <<year, month, day>>
CalendarDate(v) ==
  LET d == strptime(strip(v)) IN <<d.year, d.month, d.day>>

\* C9: exact_match_dob(a, b) is calendar-date equality when both a and b parse
\* as YYYY-MM-DD dates, and is false, with no exception reaching the caller,
\* when either is empty or fails to parse
C9_ExactMatchDob ==
  pc = "done" =>
    /\ ret.raised = "none"
    /\ IF ParsesAsDate(args.dob1) /\ ParsesAsDate(args.dob2)
       THEN ret.value = (CalendarDate(args.dob1) = CalendarDate(args.dob2))
       ELSE ret.value = FALSE

\* two different texts of the same day were compared and found equal
C9_Witness ==
  /\ pc = "done"
  /\ args.dob1 = <<"2", "0", "0", "0", "-", "0", "2", "-", "0", "1">>
  /\ args.dob2 = <<"2", "0", "0", "0", "-", "2", "-", "1">>
  /\ ret.value = TRUE

----------------------------------------------------------------------------
(* Document records and compare_documents                                  *)

DocKeys == {"name", "date_of_birth"}

\* Optional[Dict]: None, or a dict holding the keys in `has`
NoneDoc == [isNone |-> TRUE, has |-> {}, name |-> None, date_of_birth |-> None]

DictDoc(has, n, d) ==
  [isNone |-> FALSE, has |-> has,
   name |-> IF "name" \in has THEN n ELSE None,
   date_of_birth |-> IF "date_of_birth" \in has THEN d ELSE None]

\* truth value of an Optional[Dict]: None and {} are falsy
DocTruthy(doc) == ~doc.isNone /\ doc.has # {}

\* doc.get(key)
Get(doc, key) == IF key \in doc.has THEN doc[key] ELSE None

\* a record of the invocation of fn made while comparing comparison_type
Call(fn, comparison_type) == [fn |-> fn, comparison_type |-> comparison_type]

\* the guard of compare_documents testing doc1 only
DocumentMissing_doc1(doc1, doc2) == ~DocTruthy(doc1)

\* `not doc1 or not doc2`
DocumentMissing(doc1, doc2) == ~DocTruthy(doc1) \/ ~DocTruthy(doc2)

\* the missing-document result with the status of the orchestrator's
\* short-circuit
MissingDataResult_incomplete ==
  [status     |-> "incomplete",
   name_match |-> [status |-> "No data", passed |-> FALSE],
   dob_match  |-> [status |-> "No data", passed |-> FALSE],
   issues     |-> <<[kind |-> "Missing document data for comparison"]>>]

\* the result returned when a document is missing
MissingDataResult ==
  [status     |-> "failed",
   name_match |-> [status |-> "No data", passed |-> FALSE],
   dob_match  |-> [status |-> "No data", passed |-> FALSE],
   issues     |-> <<[kind |-> "Missing document data for comparison"]>>]

\* what a compared name pair adds to the result: the name_match entry,
\* whether the status becomes failed, the issue appended and the call made
NameCompared(m, name1, name2, comparison_type, name_threshold) ==
  [match  |-> [doc1_value |-> name1, doc2_value |-> name2,
               similarity |-> m.similarity,
               threshold  |-> name_threshold,
               status     |-> IF m.is_match THEN "PASSED" ELSE "FAILED",
               passed     |-> m.is_match],
   failed |-> ~m.is_match,
   issues |-> IF m.is_match THEN <<>>
              ELSE <<[kind |-> "Name mismatch", doc1_value |-> name1,
                      doc2_value |-> name2, similarity |-> m.similarity]>>,
   calls  |-> <<Call("fuzzy_match_name", comparison_type)>>]

NameSkipped ==
  [match  |-> [status |-> "SKIPPED",
               reason |-> "Missing names in one or both documents",
               passed |-> TRUE],
   failed |-> FALSE,
   issues |-> <<>>,
   calls  |-> <<>>]

\* the name block with `or` in place of `and` in its guard
NameMatch_or(name1, name2, comparison_type, name_threshold) ==
  IF Truthy(name1) \/ Truthy(name2)
  THEN NameCompared(fuzzy_match_name(name1, name2, name_threshold),
                    name1, name2, comparison_type, name_threshold)
  ELSE NameSkipped

\* the name block of compare_documents
NameMatch(name1, name2, comparison_type, name_threshold) ==
  IF Truthy(name1) /\ Truthy(name2)
  THEN NameCompared(fuzzy_match_name(name1, name2, name_threshold),
                    name1, name2, comparison_type, name_threshold)
  ELSE NameSkipped

\* the compared DOB pair without the assignment of "failed" to the status
DobCompared_keeps_status(m, dob1, dob2, comparison_type) ==
  [match  |-> [doc1_value |-> dob1, doc2_value |-> dob2,
               status     |-> IF m.value THEN "PASSED" ELSE "FAILED",
               passed     |-> m.value],
   failed |-> FALSE,
   issues |-> IF m.value THEN <<>>
              ELSE <<[kind |-> "DOB mismatch", doc1_value |-> dob1,
                      doc2_value |-> dob2]>>,
   calls  |-> <<Call("exact_match_dob", comparison_type)>>]

\* what a compared DOB pair adds to the result
DobCompared(m, dob1, dob2, comparison_type) ==
  [match  |-> [doc1_value |-> dob1, doc2_value |-> dob2,
               status     |-> IF m.value THEN "PASSED" ELSE "FAILED",
               passed     |-> m.value],
   failed |-> ~m.value,
   issues |-> IF m.value THEN <<>>
              ELSE <<[kind |-> "DOB mismatch", doc1_value |-> dob1,
                      doc2_value |-> dob2]>>,
   calls  |-> <<Call("exact_match_dob", comparison_type)>>]

DobSkipped ==
  [match  |-> [status |-> "SKIPPED",
               reason |-> "Missing DOB in one or both documents",
               passed |-> TRUE],
   failed |-> FALSE,
   issues |-> <<>>,
   calls  |-> <<>>]

\* the DOB block of compare_documents
DobMatch(dob1, dob2, comparison_type) ==
  IF Truthy(dob1) /\ Truthy(dob2)
  THEN DobCompared(exact_match_dob(dob1, dob2), dob1, dob2, comparison_type)
  ELSE DobSkipped

\* the result dict with the DOB issue ahead of the name issue
ComparisonResult_dob_first(nm, dm) ==
  [result |-> [status     |-> IF nm.failed \/ dm.failed
                              THEN "failed" ELSE "verified",
               name_match |-> nm.match,
               dob_match  |-> dm.match,
               issues     |-> dm.issues \o nm.issues],
   calls  |-> nm.calls \o dm.calls]

\* the result dict after the name block (nm) and the DOB block (dm)
ComparisonResult(nm, dm) ==
  [result |-> [status     |-> IF nm.failed \/ dm.failed
                              THEN "failed" ELSE "verified",
               name_match |-> nm.match,
               dob_match  |-> dm.match,
               issues     |-> nm.issues \o dm.issues],
   calls  |-> nm.calls \o dm.calls]

\* compare_documents(doc1, doc2, doc1_label, doc2_label, comparison_type,
\* name_threshold): the returned dict and the calls made (the labels are
\* only logged)
compare_documents(doc1, doc2, comparison_type, name_threshold) ==
  IF DocumentMissing(doc1, doc2)
  THEN [result |-> MissingDataResult, calls |-> <<>>]
  ELSE ComparisonResult(
         NameMatch(OrEmpty(Get(doc1, "name")), OrEmpty(Get(doc2, "name")),
                   comparison_type, name_threshold),
         DobMatch(OrEmpty(Get(doc1, "date_of_birth")),
                  OrEmpty(Get(doc2, "date_of_birth")), comparison_type))

----------------------------------------------------------------------------
(* Inputs of the comparator                                                *)

DocNames == {None, <<>>, <<"a", "b">>, <<"A", "b">>, <<"b">>}

DocDobs ==
  {None, <<>>,
   <<"2", "0", "0", "0", "-", "0", "2", "-", "0", "1">>,
   <<"2", "0", "0", "0", "-", "2", "-", "1">>,
   <<"0", "1", "-", "0", "2", "-", "2", "0", "0", "0">>}

Docs ==
  {NoneDoc} \cup
  {DictDoc(h, n, d) : h \in SUBSET DocKeys, n \in DocNames, d \in DocDobs}

ComparisonTypes == {"personal_vs_10th", "personal_vs_12th", "10th_vs_12th"}

InitCompare ==
  /\ pc = "call"
  /\ args \in [doc1 : Docs, doc2 : Docs, comparison_type : {"personal_vs_10th"},
               name_threshold : Thresholds]
  /\ ret = None
  /\ calls = <<>>
  /\ db = NoDb

Call_compare_documents ==
  /\ pc = "call"
  /\ DOMAIN args = {"doc1", "doc2", "comparison_type", "name_threshold"}
  /\ LET r == compare_documents(args.doc1, args.doc2, args.comparison_type,
                                args.name_threshold)
     IN  /\ ret' = r.result
         /\ calls' = r.calls
  /\ pc' = "done"
  /\ UNCHANGED <<args, db>>

NextCompare == Call_compare_documents

SpecCompare == InitCompare /\ [][NextCompare]_vars

BothPresent == DocTruthy(args.doc1) /\ DocTruthy(args.doc2)

SubMatchStatuses == {"PASSED", "FAILED", "SKIPPED"}

\* the field is absent, None or empty in the document
FieldAbsent(doc, key) == ~Truthy(Get(doc, key))

AbsentOnEitherSide(key) ==
  FieldAbsent(args.doc1, key) \/ FieldAbsent(args.doc2, key)

\* C4: with both documents present, compare_documents returns status failed
\* exactly when name_match or dob_match is FAILED, and verified otherwise
C4_StatusIffSubMatchFailed ==
  (pc = "done" /\ BothPresent) =>
    /\ ret.status = "failed" <=>
         (ret.name_match.status = "FAILED" \/ ret.dob_match.status = "FAILED")
    /\ ret.status # "failed" => ret.status = "verified"

\* the names passed, the dates of birth failed, and the comparison failed
C4_Witness ==
  /\ pc = "done"
  /\ BothPresent
  /\ ret.name_match.status = "PASSED"
  /\ ret.dob_match.status = "FAILED"
  /\ ret.status = "failed"

\* C5: with both documents present, a field absent or empty on either side
\* gives a SKIPPED, passed sub-match, never a FAILED one, and by itself never
\* fails the comparison
C5_AbsentFieldSkipped ==
  (pc = "done" /\ BothPresent) =>
    /\ AbsentOnEitherSide("name") =>
         /\ ret.name_match.status = "SKIPPED"
         /\ ret.name_match.passed
         /\ ret.status = "failed" => ret.dob_match.status = "FAILED"
    /\ AbsentOnEitherSide("date_of_birth") =>
         /\ ret.dob_match.status = "SKIPPED"
         /\ ret.dob_match.passed
         /\ ret.status = "failed" => ret.name_match.status = "FAILED"
    /\ (AbsentOnEitherSide("name") /\ AbsentOnEitherSide("date_of_birth"))
         => ret.status = "verified"

\* a name present on one side only was skipped while the dates were compared
C5_Witness ==
  /\ pc = "done"
  /\ BothPresent
  /\ ~FieldAbsent(args.doc1, "name")
  /\ FieldAbsent(args.doc2, "name")
  /\ ret.name_match.status = "SKIPPED"
  /\ ret.dob_match.status = "PASSED"
  /\ ret.status = "verified"

\* C6: when either document is None or empty, compare_documents returns status
\* failed, both sub-matches not passed and exactly one issue, and calls
\* neither fuzzy_match_name nor exact_match_dob
C6_MissingDocument ==
  (pc = "done" /\ ~BothPresent) =>
    /\ ret.status = "failed"
    /\ ~ret.name_match.passed
    /\ ~ret.dob_match.passed
    /\ Len(ret.issues) = 1
    /\ calls = <<>>

\* a document with a name and a date of birth was compared with an empty dict
C6_Witness ==
  /\ pc = "done"
  /\ DocTruthy(args.doc1)
  /\ ~FieldAbsent(args.doc1, "name")
  /\ ~FieldAbsent(args.doc1, "date_of_birth")
  /\ ~args.doc2.isNone
  /\ args.doc2.has = {}
  /\ ret.status = "failed"

\* C7 as stated: every result of compare_documents, a missing document
\* included, has sub-match statuses among PASSED, FAILED, SKIPPED and a status
\* among verified, failed
C7_StatusDomains ==
  pc = "done" =>
    /\ ret.name_match.status \in SubMatchStatuses
    /\ ret.dob_match.status \in SubMatchStatuses
    /\ ret.status \in {"verified", "failed"}

\* C7 amended: the status is always verified or failed; the sub-match
\* statuses are among PASSED, FAILED, SKIPPED when both documents are present
\* and are both "No data" when a document is missing
C7_StatusDomainsAmended ==
  pc = "done" =>
    /\ ret.status \in {"verified", "failed"}
    /\ BothPresent =>
         /\ ret.name_match.status \in SubMatchStatuses
         /\ ret.dob_match.status \in SubMatchStatuses
    /\ ~BothPresent =>
         /\ ret.name_match.status = "No data"
         /\ ret.dob_match.status = "No data"

\* a comparison with a missing (None) second document returned "No data"
C7_Witness ==
  /\ pc = "done"
  /\ DocTruthy(args.doc1)
  /\ args.doc2.isNone
  /\ ret.name_match.status = "No data"
  /\ ret.status = "failed"

----------------------------------------------------------------------------
(* verify_worker_documents                                                 *)

\* the count taking every dict for a document, the empty one included
documents_count_not_none(personal, edu_10th, edu_12th) ==
  (IF ~personal.isNone THEN 1 ELSE 0)
    + (IF ~edu_10th.isNone THEN 1 ELSE 0)
    + (IF ~edu_12th.isNone THEN 1 ELSE 0)

\* the number of truthy documents among the three
documents_count(personal, edu_10th, edu_12th) ==
  (IF DocTruthy(personal) THEN 1 ELSE 0)
    + (IF DocTruthy(edu_10th) THEN 1 ELSE 0)
    + (IF DocTruthy(edu_12th) THEN 1 ELSE 0)

\* the short-circuit guard with 1 in place of 2
InsufficientDocuments_lt1(count) == count < 1

\* `documents_count < 2`
InsufficientDocuments(count) == count < 2

Pair(type, doc1, doc2) == [type |-> type, doc1 |-> doc1, doc2 |-> doc2]

\* the pairs with the guard of the first block copied to the second
ComparedPairs_copied_guard(personal, edu_10th, edu_12th) ==
  (IF DocTruthy(personal) /\ DocTruthy(edu_10th)
   THEN <<Pair("personal_vs_10th", personal, edu_10th)>> ELSE <<>>)
  \o (IF DocTruthy(personal) /\ DocTruthy(edu_10th)
      THEN <<Pair("personal_vs_12th", personal, edu_12th)>> ELSE <<>>)
  \o (IF DocTruthy(edu_10th) /\ DocTruthy(edu_12th)
      THEN <<Pair("10th_vs_12th", edu_10th, edu_12th)>> ELSE <<>>)

\* the pairs handed to compare_documents, in the order of the three blocks
ComparedPairs(personal, edu_10th, edu_12th) ==
  (IF DocTruthy(personal) /\ DocTruthy(edu_10th)
   THEN <<Pair("personal_vs_10th", personal, edu_10th)>> ELSE <<>>)
  \o (IF DocTruthy(personal) /\ DocTruthy(edu_12th)
      THEN <<Pair("personal_vs_12th", personal, edu_12th)>> ELSE <<>>)
  \o (IF DocTruthy(edu_10th) /\ DocTruthy(edu_12th)
      THEN <<Pair("10th_vs_12th", edu_10th, edu_12th)>> ELSE <<>>)

\* the overall status failing only when every comparison failed
overall_status_all_failed(comparisons_performed, comparisons_failed) ==
  IF comparisons_performed > 0 /\ comparisons_failed = comparisons_performed
  THEN "failed"
  ELSE IF comparisons_performed = 0 THEN "incomplete"
  ELSE "verified"

\* "Determine overall status"
overall_status(comparisons_performed, comparisons_failed) ==
  IF comparisons_failed > 0 THEN "failed"
  ELSE IF comparisons_performed = 0 THEN "incomplete"
  ELSE "verified"

RECURSIVE Flatten(_)
Flatten(seqs) == IF seqs = <<>> THEN <<>> ELSE Head(seqs) \o Flatten(Tail(seqs))

\* the short-circuit result
IncompleteResult(count) ==
  [result |-> [overall_status  |-> "incomplete",
               documents_count |-> count,
               comparisons     |-> <<>>,
               errors |-> <<"Need at least 2 documents for verification">>],
   calls  |-> <<>>]

\* the failures counted on the first comparison only
CountFailed_first_only(comp) ==
  IF comp # <<>> /\ comp[1].result.status = "failed" THEN 1 ELSE 0

CountFailed(comp) ==
  Cardinality({i \in 1..Len(comp) : comp[i].result.status = "failed"})

\* the result built from the compared pairs and their comparison outcomes
VerificationResult(count, pairs, comp) ==
  [result |-> [overall_status  |-> overall_status(Len(comp), CountFailed(comp)),
               documents_count |-> count,
               comparisons     |-> [i \in 1..Len(comp) |->
                                      [type    |-> pairs[i].type,
                                       status  |-> comp[i].result.status,
                                       details |-> comp[i].result]],
               errors          |-> <<>>],
   calls  |-> Flatten([i \in 1..Len(comp) |->
                <<Call("compare_documents", pairs[i].type)>> \o comp[i].calls])]

\* compare_documents on each pair in turn
CompareAll(pairs, name_threshold) ==
  [i \in 1..Len(pairs) |->
     compare_documents(pairs[i].doc1, pairs[i].doc2, pairs[i].type,
                       name_threshold)]

\* the three comparison blocks and the overall status
PerformComparisons(count, pairs, name_threshold) ==
  VerificationResult(count, pairs, CompareAll(pairs, name_threshold))

\* the count guard and what follows it
VerifyCounted(count, personal, edu_10th, edu_12th, name_threshold) ==
  IF InsufficientDocuments(count)
  THEN IncompleteResult(count)
  ELSE PerformComparisons(count, ComparedPairs(personal, edu_10th, edu_12th),
                          name_threshold)

\* verify_worker_documents(personal, edu_10th, edu_12th, name_threshold): the
\* returned dict and the calls made
verify_worker_documents(personal, edu_10th, edu_12th, name_threshold) ==
  VerifyCounted(documents_count(personal, edu_10th, edu_12th),
                personal, edu_10th, edu_12th, name_threshold)

----------------------------------------------------------------------------
(* Inputs of the orchestrator                                              *)

\* 0.85 is the threshold the endpoint passes
VerifyThresholds == {85, 100}

VerifyNames == {None, <<"a", "b">>, <<"A", "b">>, <<"b">>}

VerifyDobs ==
  {<<>>,
   <<"2", "0", "0", "0", "-", "0", "2", "-", "0", "1">>,
   <<"2", "0", "0", "0", "-", "2", "-", "1">>,
   <<"0", "1", "-", "0", "2", "-", "2", "0", "0", "0">>}

\* None, {} and the dicts holding both keys
VerifyDocs ==
  {NoneDoc, DictDoc({}, None, None)} \cup
  {DictDoc(DocKeys, n, d) : n \in VerifyNames, d \in VerifyDobs}

InitVerify ==
  /\ pc = "call"
  /\ args \in [personal : VerifyDocs, edu_10th : VerifyDocs, edu_12th : VerifyDocs,
               name_threshold : VerifyThresholds]
  /\ ret = None
  /\ calls = <<>>
  /\ db = NoDb

Call_verify_worker_documents ==
  /\ pc = "call"
  /\ DOMAIN args = {"personal", "edu_10th", "edu_12th", "name_threshold"}
  /\ LET r == verify_worker_documents(args.personal, args.edu_10th,
                                      args.edu_12th, args.name_threshold)
     IN  /\ ret' = r.result
         /\ calls' = r.calls
  /\ pc' = "done"
  /\ UNCHANGED <<args, db>>

NextVerify == Call_verify_worker_documents

SpecVerify == InitVerify /\ [][NextVerify]_vars

DocSlots == {"personal", "edu_10th", "edu_12th"}

PresentSlots == {d \in DocSlots : DocTruthy(args[d])}

\* the comparison types in their fixed order, with the two slots each compares
PairOrder ==
  <<[type |-> "personal_vs_10th", a |-> "personal", b |-> "edu_10th"],
    [type |-> "personal_vs_12th", a |-> "personal", b |-> "edu_12th"],
    [type |-> "10th_vs_12th", a |-> "edu_10th", b |-> "edu_12th"]>>

BothSidesPresent(p) == p.a \in PresentSlots /\ p.b \in PresentSlots

ExpectedTypes ==
  LET sel == SelectSeq(PairOrder, BothSidesPresent)
  IN  [i \in 1..Len(sel) |-> sel[i].type]

ResultTypes == [i \in 1..Len(ret.comparisons) |-> ret.comparisons[i].type]

SomeComparisonFailed ==
  \E i \in 1..Len(ret.comparisons) : ret.comparisons[i].status = "failed"

\* C1: with fewer than 2 documents present (None and {} count as absent),
\* verify_worker_documents returns overall_status incomplete, documents_count
\* equal to the number present, no comparisons and a non-empty errors list,
\* and never calls compare_documents
C1_FewerThanTwo ==
  (pc = "done" /\ Cardinality(PresentSlots) < 2) =>
    /\ ret.overall_status = "incomplete"
    /\ ret.documents_count = Cardinality(PresentSlots)
    /\ ret.comparisons = <<>>
    /\ ret.errors # <<>>
    /\ calls = <<>>

\* only the 12th document is present (personal is None, the 10th is {})
C1_Witness ==
  /\ pc = "done"
  /\ PresentSlots = {"edu_12th"}
  /\ ~FieldAbsent(args.edu_12th, "name")
  /\ args.personal.isNone
  /\ ~args.edu_10th.isNone
  /\ ret.overall_status = "incomplete"
  /\ ret.documents_count = 1

\* C2: with at least 2 documents present, comparisons has exactly one entry
\* per pair whose two sides are present, in the order personal_vs_10th,
\* personal_vs_12th, 10th_vs_12th: 1 entry for 2 documents, 3 for 3
C2_ComparisonsInOrder ==
  (pc = "done" /\ Cardinality(PresentSlots) >= 2) =>
    /\ ResultTypes = ExpectedTypes
    /\ Cardinality(PresentSlots) = 2 => Len(ret.comparisons) = 1
    /\ Cardinality(PresentSlots) = 3 => Len(ret.comparisons) = 3
    /\ SelectSeq(calls, LAMBDA c : c.fn = "compare_documents")
         = [i \in 1..Len(ExpectedTypes) |->
              Call("compare_documents", ExpectedTypes[i])]

\* personal and the 10th are present, the 12th is not: one comparison
C2_Witness ==
  /\ pc = "done"
  /\ PresentSlots = {"personal", "edu_10th"}
  /\ Len(ret.comparisons) = 1
  /\ ret.comparisons[1].type = "personal_vs_10th"

\* C3: with at least 2 documents present, overall_status is failed exactly
\* when some comparison has status failed, and verified exactly when at least
\* one comparison was made and none failed
C3_OverallStatus ==
  (pc = "done" /\ Cardinality(PresentSlots) >= 2) =>
    /\ ret.overall_status = "failed" <=> SomeComparisonFailed
    /\ ret.overall_status = "verified" <=>
         (Len(ret.comparisons) >= 1 /\ ~SomeComparisonFailed)

\* three documents, one comparison verified and another failed: failed overall
C3_Witness ==
  /\ pc = "done"
  /\ Len(ret.comparisons) = 3
  /\ ret.comparisons[1].status = "verified"
  /\ ret.comparisons[3].status = "failed"
  /\ ret.overall_status = "failed"

----------------------------------------------------------------------------
(* extract_verification_errors                                             *)

\* a None (or empty) verification result, and the None the function returns
NoneResult == [isNone |-> TRUE, overall_status |-> "None", comparisons |-> <<>>]

NoErrors == [isNone |-> TRUE, status |-> "None", comparisons |-> <<>>]

IsFailed(comp) == comp.status = "failed"

\* extract_verification_errors(verification_result) -> Optional[Dict]
extract_verification_errors(verification_result) ==
  IF verification_result.isNone \/ verification_result.overall_status # "failed"
  THEN NoErrors
  ELSE LET failed == SelectSeq(verification_result.comparisons, IsFailed)
           comparisons == [i \in 1..Len(failed) |->
                             [type   |-> failed[i].type,
                              issues |-> failed[i].details.issues]]
       IN  IF comparisons # <<>>
           THEN [isNone |-> FALSE, status |-> "failed",
                 comparisons |-> comparisons]
           ELSE NoErrors

----------------------------------------------------------------------------
(* Inputs of the error extraction                                          *)

IssueLists ==
  {<<>>,
   <<[kind |-> "Name mismatch"]>>,
   <<[kind |-> "Name mismatch"], [kind |-> "DOB mismatch"]>>}

ComparisonEntries ==
  [type : ComparisonTypes, status : {"verified", "failed"},
   details : [issues : IssueLists]]

ComparisonLists == UNION {[1..k -> ComparisonEntries] : k \in 0..MaxComps}

VerificationResults ==
  {NoneResult} \cup
  [isNone : {FALSE}, overall_status : {"verified", "failed", "incomplete"},
   comparisons : ComparisonLists]

InitErrors ==
  /\ pc = "call"
  /\ args \in [verification_result : VerificationResults]
  /\ ret = None
  /\ calls = <<>>
  /\ db = NoDb

Call_extract_verification_errors ==
  /\ pc = "call"
  /\ DOMAIN args = {"verification_result"}
  /\ ret' = extract_verification_errors(args.verification_result)
  /\ calls' = <<>>
  /\ pc' = "done"
  /\ UNCHANGED <<args, db>>

NextErrors == Call_extract_verification_errors

SpecErrors == InitErrors /\ [][NextErrors]_vars

HasIssues(comp) == comp.details.issues # <<>>

FailedWithIssues(comp) == IsFailed(comp) /\ HasIssues(comp)

\* C8: extract_verification_errors returns None unless overall_status is
\* failed; when it is failed the summary lists exactly the failed comparisons
\* that have an issue, and None is returned when there is none to list
C8_ErrorSummary ==
  pc = "done" =>
    LET vr == args.verification_result
        listed == SelectSeq(vr.comparisons, FailedWithIssues)
    IN  /\ vr.overall_status # "failed" => ret.isNone
        /\ vr.overall_status = "failed" =>
             IF listed = <<>> THEN ret.isNone
             ELSE /\ ~ret.isNone
                  /\ ret.comparisons =
                       [i \in 1..Len(listed) |->
                          [type   |-> listed[i].type,
                           issues |-> listed[i].details.issues]]

----------------------------------------------------------------------------
(* normalize_dob (src/services/document_verification.py)                   *)

\* the character of a digit value
DigitChar(d) == CHOOSE c \in DOMAIN DigitVal : DigitVal[c] = d

\* f"{n:02d}"
Pad2(n) == IF n < 10 THEN <<"0", DigitChar(n)>>
           ELSE <<DigitChar(n \div 10), DigitChar(n % 10)>>

\* s[i .. i+n-1] exist and are digits: \d{n} at position i
DigitsAt(s, i, n) == i + n - 1 <= Len(s) /\ \A k \in i..(i + n - 1) : IsDigit(s[k])

\* [/.\s] at position i
SepAt(s, i) == i <= Len(s) /\ (s[i] \in {"/", "."} \/ IsSpace(s[i]))

\* the position after [/.\s]* read greedily from position i
RECURSIVE SkipSeps(_, _)
SkipSeps(s, i) == IF SepAt(s, i) THEN SkipSeps(s, i + 1) ELSE i

\* the length of (\d{1,2}) at position i when a separator must follow it,
\* 0 when it cannot match there
FieldLen(s, i) ==
  IF DigitsAt(s, i, 2) /\ SepAt(s, i + 2) THEN 2
  ELSE IF DigitsAt(s, i, 1) /\ SepAt(s, i + 1) THEN 1
  ELSE 0

NoMatch == [found |-> FALSE, day |-> <<>>, month |-> <<>>, year |-> <<>>]

\* (\d{4}) at position k closes the match
YearGroup(s, i, dl, j, ml, k) ==
  IF DigitsAt(s, k, 4)
  THEN [found |-> TRUE,
        day   |-> SubSeq(s, i, i + dl - 1),
        month |-> SubSeq(s, j, j + ml - 1),
        year  |-> SubSeq(s, k, k + 3)]
  ELSE NoMatch

MonthGroup(s, i, dl, j, ml) ==
  IF ml = 0 THEN NoMatch ELSE YearGroup(s, i, dl, j, ml, SkipSeps(s, j + ml))

MonthFrom(s, i, dl, j) == MonthGroup(s, i, dl, j, FieldLen(s, j))

DayGroup(s, i, dl) ==
  IF dl = 0 THEN NoMatch ELSE MonthFrom(s, i, dl, SkipSeps(s, i + dl))

\* (\d{1,2})[/.\s]+(\d{1,2})[/.\s]+(\d{4}) matched at position i
SlashMatchAt(s, i) == DayGroup(s, i, FieldLen(s, i))

\* re.search of the pattern: its leftmost match from position i on
RECURSIVE SlashSearch(_, _)
SlashSearch(s, i) ==
  IF i > Len(s) THEN NoMatch
  ELSE IF SlashMatchAt(s, i).found THEN SlashMatchAt(s, i)
  ELSE SlashSearch(s, i + 1)

\* ^\d{2}-\d{2}-\d{4}$
IsDdMmYyyy(s) ==
  /\ Len(s) = 10
  /\ DigitsAt(s, 1, 2) /\ s[3] = "-"
  /\ DigitsAt(s, 4, 2) /\ s[6] = "-"
  /\ DigitsAt(s, 7, 4)

\* ^(\d{2})(\d{2})(\d{4})$
IsCompact(s) == Len(s) = 8 /\ DigitsAt(s, 1, 8)

\* f"{int(day):02d}-{int(month):02d}-{year}"
SlashFormat(m) ==
  Pad2(ToInt(m.day)) \o <<"-">> \o Pad2(ToInt(m.month)) \o <<"-">> \o m.year

CompactFormat_slashes(s) ==
  SubSeq(s, 1, 2) \o <<"/">> \o SubSeq(s, 3, 4) \o <<"/">> \o SubSeq(s, 5, 8)

\* f"{day}-{month}-{year}"
CompactFormat(s) ==
  SubSeq(s, 1, 2) \o <<"-">> \o SubSeq(s, 3, 4) \o <<"-">> \o SubSeq(s, 5, 8)

\* the patterns tried in turn on the stripped text
NormalizeStripped(s, m) ==
  IF IsDdMmYyyy(s) THEN s
  ELSE IF m.found THEN SlashFormat(m)
  ELSE IF IsCompact(s) THEN CompactFormat(s)
  ELSE s

NormalizeText(s) == NormalizeStripped(s, SlashSearch(s, 1))

normalize_dob(dob) == IF ~Truthy(dob) THEN <<>> ELSE NormalizeText(strip(dob))

----------------------------------------------------------------------------
(* Inputs of normalize_dob                                                 *)

NormDays == {<<"1">>, <<"0", "1">>, <<"3", "1">>, <<"1", "2", "3">>}

NormMonths == {<<"2">>, <<"1", "2">>}

NormYears == {<<"2", "0", "0", "0">>, <<"9", "8">>, <<"2", "0", "0", "0", "1">>}

NormSeps == {<<>>, <<"/">>, <<".">>, <<"-">>, <<" ">>, <<"/", " ">>, <<"x">>}

NormEdges == {<<>>, <<" ">>, <<"x">>, <<"7">>}

\* a day, a month and a year written with any two separators, inside other text
NormTexts ==
  {a \o d \o s1 \o m \o s2 \o y \o b :
     a \in NormEdges, d \in NormDays, s1 \in NormSeps, m \in NormMonths,
     s2 \in NormSeps, y \in NormYears, b \in NormEdges}

NormInputs == NormTexts \cup Strings(MaxLen) \cup {None}

InitNorm ==
  /\ pc = "call"
  /\ args \in [dob : NormInputs]
  /\ ret = None
  /\ calls = <<>>
  /\ db = NoDb

Call_normalize_dob ==
  /\ pc = "call"
  /\ DOMAIN args = {"dob"}
  /\ ret' = normalize_dob(args.dob)
  /\ calls' = <<"normalize_dob">>
  /\ pc' = "done"
  /\ UNCHANGED <<args, db>>

\* the caller normalizes the value it got back
Call_normalize_dob_again ==
  /\ pc = "done"
  /\ DOMAIN args = {"dob"}
  /\ calls = <<"normalize_dob">>
  /\ ret' = normalize_dob(ret)
  /\ calls' = <<"normalize_dob", ret>>
  /\ pc' = "again"
  /\ UNCHANGED <<args, db>>

NextNorm == Call_normalize_dob \/ Call_normalize_dob_again

SpecNorm == InitNorm /\ [][NextNorm]_vars

\* C11: normalize_dob is idempotent: normalizing a normalized value returns
\* it unchanged, normalize_dob(normalize_dob(x)) = normalize_dob(x)
C11_NormalizeDobIdempotent ==
  pc = "again" => ret = calls[2] /\ calls[2] = normalize_dob(args.dob)

\* a slash-separated date inside other text was rewritten to DD-MM-YYYY and
\* normalized again
C11_Witness ==
  /\ pc = "again"
  /\ args.dob = <<"x", "1", "/", "2", "/", " ", "2", "0", "0", "0", "7">>
  /\ ret = <<"0", "1", "-", "0", "2", "-", "2", "0", "0", "0">>

----------------------------------------------------------------------------
(* Upload endpoints (src/api/document_endpoints.py): requests, responses   *)
(* and the collaborators they call                                         *)

\* the least number of characters an OCR text must have once stripped
MinOcrTextLength == 50

ALLOWED_EXTENSIONS ==
  {<<"p", "d", "f">>, <<"j", "p", "g">>, <<"j", "p", "e", "g">>, <<"p", "n", "g">>}

\* filename.rsplit('.', 1)[-1]: the text after the last dot
RECURSIVE AfterLastDot(_)
AfterLastDot(s) ==
  IF s = <<>> \/ s[Len(s)] = "." THEN <<>>
  ELSE Append(AfterLastDot(SubSeq(s, 1, Len(s) - 1)), s[Len(s)])

HasDot(s) == \E i \in 1..Len(s) : s[i] = "."

validate_document_format_any_suffix(filename) ==
  IF ~Truthy(filename) THEN FALSE
  ELSE lower(AfterLastDot(filename)) \in ALLOWED_EXTENSIONS

validate_document_format(filename) ==
  IF ~Truthy(filename) THEN FALSE
  ELSE (IF HasDot(filename) THEN lower(AfterLastDot(filename)) ELSE <<>>)
         \in ALLOWED_EXTENSIONS

\* an UploadFile parameter: absent (None) or an object with a filename
NoFile == [given |-> FALSE, filename |-> None]

File(filename) == [given |-> TRUE, filename |-> filename]

\* a camera_data form field: None, "" or a base64 text that decodes to an
\* image or does not
NoCamera == [text |-> "None", decodes |-> FALSE]

EmptyCamera == [text |-> "", decodes |-> FALSE]

Capture(decodes) == [text |-> "data:image/png;base64,...", decodes |-> decodes]

\* truth value of the form field
CameraGiven(camera_data) == camera_data.text \notin {"None", ""}

\* (image, error) of document_processor.convert_camera_to_image
convert_camera_to_image(base64_data) ==
  IF base64_data.decodes
  THEN [image |-> TRUE, error |-> "None"]
  ELSE [image |-> FALSE, error |-> "Failed to convert camera capture: ..."]

\* one collaborator call of a request, in the order the calls are made
Step(fn, doc_class) == [fn |-> fn, doc |-> doc_class]

\* the JSON body of _build_response: data lists the documents it reports
build_response(status_code, message, data, error_code) ==
  [status_code |-> status_code, message |-> message, data |-> data,
   error_code |-> error_code]

\* what a handler leaves behind: its response, the store and its calls
Out(response, store, steps) ==
  [response |-> response, db |-> store, calls |-> steps]

\* the except branch of an endpoint
InternalError ==
  build_response(500, "Internal server error: ...", <<>>, "INTERNAL_ERROR")

\* the structured data {} stored with a failed attempt
EmptyData == [isNone |-> FALSE, has |-> {}, name |-> None, date_of_birth |-> None]

\* crud.get_worker: the worker's row, None when there is none
get_worker(store, worker_id) ==
  IF worker_id \in DOMAIN store.workers THEN store.workers[worker_id]
  ELSE [isNone |-> TRUE, name |-> None, dob |-> None, address |-> None]

update_worker_data_name_only(store, worker_id, name, dob, address) ==
  [store EXCEPT !.workers[worker_id].name = name]

\* crud.update_worker_data: one UPDATE of the three columns, committed
update_worker_data(store, worker_id, name, dob, address) ==
  [store EXCEPT !.workers[worker_id] =
     [isNone |-> FALSE, name |-> name, dob |-> dob, address |-> address]]

\* crud.save_document_extraction: one record appended to the extraction log
save_document_extraction(store, worker_id, document_type, raw_ocr_text, extracted_data, file_path, status, error) ==
  [store EXCEPT !.audit = Append(@,
     [worker_id |-> worker_id, document_type |-> document_type,
      raw_ocr_text |-> raw_ocr_text, extracted_data |-> extracted_data,
      file_path |-> file_path, status |-> status, error |-> error])]

\* crud.update_educational_document_extraction: the class level's record
update_educational_document_extraction(store, worker_id, class_level, extracted_data, raw_ocr, file_path) ==
  [store EXCEPT !.edu[worker_id][class_level] = extracted_data]

\* the file written by save_uploaded_file or save_pil_image_to_file
StoreFile(store, worker_id, doc_type, source, filename) ==
  [store EXCEPT !.files = Append(@,
     [worker_id |-> worker_id, doc_type |-> doc_type, source |-> source,
      filename |-> filename])]

\* not raw_ocr_text or len(raw_ocr_text.strip()) < 50
OcrInsufficient(raw_ocr_text) ==
  ~Truthy(raw_ocr_text) \/ Len(strip(raw_ocr_text)) < MinOcrTextLength

----------------------------------------------------------------------------
(* upload_personal_document                                                *)

\* the UPDATE ran, matched the worker's row and was committed
UpdateSucceeds(store, worker_id, env) ==
  env.db_ok /\ worker_id \in DOMAIN store.workers

\* a save_document_extraction call that raises reaches the except branch
PersonalAudit(store, steps, worker_id, env, raw_ocr_text, extracted_data, status, error, response) ==
  IF env.audit_ok
  THEN Out(response,
           save_document_extraction(store, worker_id, "personal", raw_ocr_text,
                                    extracted_data, "personal", status, error),
           Append(steps, Step("save_document_extraction", "personal")))
  ELSE Out(InternalError, store,
           Append(steps, Step("save_document_extraction", "personal")))

\* lines 135-155: the worker's row is updated, then the success is logged
PersonalSaved(store, steps, worker_id, env, extracted_data) ==
  IF ~UpdateSucceeds(store, worker_id, env)
  THEN Out(build_response(500, "Failed to save extracted data", <<>>,
                          "DATABASE_SAVE_FAILED"),
           store, Append(steps, Step("update_worker_data", "personal")))
  ELSE PersonalAudit(
         update_worker_data(store, worker_id,
                            OrEmpty(Get(extracted_data, "name")),
                            OrEmpty(Get(extracted_data, "date_of_birth")),
                            OrEmpty(Get(extracted_data, "address"))),
         Append(steps, Step("update_worker_data", "personal")),
         worker_id, env, env.ocr_text, extracted_data, "success", "None",
         build_response(200, "Personal document processed successfully",
                        <<[class |-> "personal", data |-> extracted_data]>>,
                        "None"))

\* the extracted data saved whatever the LLM returned
PersonalExtracted_no_llm_check(store, steps, worker_id, env) ==
  PersonalSaved(store, steps, worker_id, env, env.llm)

\* lines 122-131: the LLM is asked for the structured data
PersonalExtracted(store, steps, worker_id, env) ==
  IF ~DocTruthy(env.llm)
  THEN PersonalAudit(store, steps, worker_id, env, env.ocr_text, EmptyData,
                     "failed", "LLM extraction failed",
                     build_response(400, "Failed to extract personal data. Please try again.",
                                    <<>>, "LLM_EXTRACTION_FAILED"))
  ELSE PersonalSaved(store, steps, worker_id, env, env.llm)

\* lines 109-124: the OCR text is read and measured
PersonalOcr(store, steps, worker_id, env) ==
  IF OcrInsufficient(env.ocr_text)
  THEN PersonalAudit(store, steps, worker_id, env, OrEmpty(env.ocr_text),
                     EmptyData, "failed",
                     "OCR extraction failed or returned insufficient text",
                     build_response(400, "Failed to extract text from document. Please upload a clearer image.",
                                    <<>>, "OCR_EXTRACTION_FAILED"))
  ELSE PersonalExtracted(store,
                         Append(steps, Step("extract_personal_data", "personal")),
                         worker_id, env)

\* lines 80-90: the camera capture is decoded and saved as a PNG file
PersonalCamera(store, steps, worker_id, camera_data, env) ==
  IF convert_camera_to_image(camera_data).error # "None"
  THEN Out(build_response(400, convert_camera_to_image(camera_data).error, <<>>,
                          "CAMERA_CONVERSION_FAILED"),
           store, Append(steps, Step("convert_camera_to_image", "personal")))
  ELSE IF ~env.storage_ok
  THEN Out(build_response(500, "Failed to save image: ...", <<>>, "FILE_SAVE_FAILED"),
           store,
           steps \o <<Step("convert_camera_to_image", "personal"),
                      Step("save_pil_image_to_file", "personal")>>)
  ELSE PersonalOcr(StoreFile(store, worker_id, "personal", "camera", None),
                   steps \o <<Step("convert_camera_to_image", "personal"),
                              Step("save_pil_image_to_file", "personal"),
                              Step("ocr_to_text", "personal")>>,
                   worker_id, env)

\* lines 93-105: the uploaded file's format is checked, then it is saved
PersonalFile(store, steps, worker_id, document_file, env) ==
  IF ~validate_document_format(document_file.filename)
  THEN Out(build_response(400, "Invalid file format. Allowed: PDF, JPG, PNG", <<>>,
                          "INVALID_FILE_FORMAT"),
           store, Append(steps, Step("validate_document_format", "personal")))
  ELSE IF ~env.storage_ok
  THEN Out(build_response(500, "Failed to save file: ...", <<>>, "FILE_SAVE_FAILED"),
           store,
           steps \o <<Step("validate_document_format", "personal"),
                      Step("save_uploaded_file", "personal")>>)
  ELSE PersonalOcr(StoreFile(store, worker_id, "personal", "file",
                             document_file.filename),
                   steps \o <<Step("validate_document_format", "personal"),
                              Step("save_uploaded_file", "personal"),
                              Step("ocr_to_text", "personal")>>,
                   worker_id, env)

upload_personal_document(store, worker_id, document_file, camera_data, env) ==
  IF worker_id = ""
  THEN Out(build_response(400, "worker_id is required", <<>>, "MISSING_WORKER_ID"),
           store, <<>>)
  ELSE IF ~document_file.given /\ ~CameraGiven(camera_data)
  THEN Out(build_response(400, "Either document_file or camera_data required",
                          <<>>, "MISSING_FILE"),
           store, <<>>)
  ELSE IF get_worker(store, worker_id).isNone
  THEN Out(build_response(404, "Worker not found", <<>>, "WORKER_NOT_FOUND"),
           store, <<Step("get_worker", "worker")>>)
  ELSE IF CameraGiven(camera_data)
  THEN PersonalCamera(store, <<Step("get_worker", "worker")>>, worker_id,
                      camera_data, env)
  ELSE PersonalFile(store, <<Step("get_worker", "worker")>>, worker_id,
                    document_file, env)

----------------------------------------------------------------------------
(* _process_educational_document and upload_educational_documents          *)

\* (file_path, extracted_data) of the helper, with the store and the calls
Processed(file_path, extracted_data, store, steps) ==
  [file_path |-> file_path, extracted_data |-> extracted_data,
   db |-> store, calls |-> steps]

\* a save_document_extraction call that raises is caught by the helper's
\* except branch, which returns (None, None)
EducationalAudit(store, steps, worker_id, class_level, env, raw_ocr_text, extracted_data, status, error, returned) ==
  IF env.audit_ok
  THEN Processed(class_level, returned,
                 save_document_extraction(store, worker_id, class_level,
                                          raw_ocr_text, extracted_data,
                                          class_level, status, error),
                 Append(steps, Step("save_document_extraction", class_level)))
  ELSE Processed("None", NoneDoc, store,
                 Append(steps, Step("save_document_extraction", class_level)))

\* lines 297-316: the LLM is asked for the structured data, which is logged
EducationalExtracted(store, steps, worker_id, class_level, env) ==
  IF ~DocTruthy(env.llm)
  THEN EducationalAudit(store, steps, worker_id, class_level, env, env.ocr_text,
                        EmptyData, "failed", "LLM extraction failed", NoneDoc)
  ELSE EducationalAudit(store, steps, worker_id, class_level, env, env.ocr_text,
                        env.llm, "success", "None", env.llm)

\* lines 285-299: the OCR text is read and measured
EducationalOcr(store, steps, worker_id, class_level, env) ==
  IF OcrInsufficient(env.ocr_text)
  THEN EducationalAudit(store, steps, worker_id, class_level, env,
                        OrEmpty(env.ocr_text), EmptyData, "failed",
                        "OCR extraction failed", NoneDoc)
  ELSE EducationalExtracted(store,
                            Append(steps, Step("extractor_func", class_level)),
                            worker_id, class_level, env)

\* lines 260-270: the camera capture is decoded and saved as a PNG file
EducationalCamera(store, steps, worker_id, class_level, camera_data, env) ==
  IF convert_camera_to_image(camera_data).error # "None"
  THEN Processed("None", NoneDoc, store,
                 Append(steps, Step("convert_camera_to_image", class_level)))
  ELSE IF ~env.storage_ok
  THEN Processed("None", NoneDoc, store,
                 steps \o <<Step("convert_camera_to_image", class_level),
                            Step("save_pil_image_to_file", class_level)>>)
  ELSE EducationalOcr(StoreFile(store, worker_id, class_level, "camera", None),
                      steps \o <<Step("convert_camera_to_image", class_level),
                                 Step("save_pil_image_to_file", class_level),
                                 Step("ocr_to_text", class_level)>>,
                      worker_id, class_level, env)

\* lines 273-283: the uploaded file's format is checked, then it is saved
EducationalFile(store, steps, worker_id, class_level, file_upload, env) ==
  IF ~validate_document_format(file_upload.filename)
  THEN Processed("None", NoneDoc, store,
                 Append(steps, Step("validate_document_format", class_level)))
  ELSE IF ~env.storage_ok
  THEN Processed("None", NoneDoc, store,
                 steps \o <<Step("validate_document_format", class_level),
                            Step("save_uploaded_file", class_level)>>)
  ELSE EducationalOcr(StoreFile(store, worker_id, class_level, "file",
                                file_upload.filename),
                      steps \o <<Step("validate_document_format", class_level),
                                 Step("save_uploaded_file", class_level),
                                 Step("ocr_to_text", class_level)>>,
                      worker_id, class_level, env)

process_educational_document(store, steps, worker_id, class_level, file_upload, camera_data, env) ==
  IF CameraGiven(camera_data)
  THEN EducationalCamera(store, steps, worker_id, class_level, camera_data, env)
  ELSE EducationalFile(store, steps, worker_id, class_level, file_upload, env)

\* file_10th or camera_data_10th
DocumentGiven(file_upload, camera_data) ==
  file_upload.given \/ CameraGiven(camera_data)

\* the results list, the store and the calls after a class level was handled
Handled(results, store, steps, failed) ==
  [results |-> results, db |-> store, calls |-> steps, failed |-> failed]

\* lines 203-213 and 222-232: a document that could not be processed ends
\* the request; a processed one is saved and, if saved, added to the results
SaveProcessed(p, results, worker_id, class_level, env) ==
  IF p.extracted_data.isNone
  THEN Handled(results, p.db, p.calls, class_level)
  ELSE IF UpdateSucceeds(p.db, worker_id, env)
  THEN Handled(Append(results, [class |-> class_level, data |-> p.extracted_data]),
               update_educational_document_extraction(
                 p.db, worker_id, class_level, p.extracted_data, <<>>, p.file_path),
               Append(p.calls, Step("update_educational_document_extraction",
                                    class_level)),
               "None")
  ELSE Handled(results, p.db,
               Append(p.calls, Step("update_educational_document_extraction",
                                    class_level)),
               "None")

\* one class level of the request, if the request has a document for it
HandleClass(h, worker_id, class_level, file_upload, camera_data, env) ==
  IF ~DocumentGiven(file_upload, camera_data) THEN h
  ELSE SaveProcessed(
         process_educational_document(h.db, h.calls, worker_id, class_level,
                                      file_upload, camera_data, env),
         h.results, worker_id, class_level, env)

\* lines 234-241: the response once both class levels were handled
EducationalResponse(h) ==
  IF h.results = <<>>
  THEN Out(build_response(400, "No documents were successfully processed", <<>>,
                          "ALL_PROCESSING_FAILED"),
           h.db, h.calls)
  ELSE Out(build_response(200, "Educational documents processed successfully",
                          h.results, "None"),
           h.db, h.calls)

\* lines 204-205 and 223-224
ProcessingFailed(h, class_level) ==
  IF class_level = "10th"
  THEN Out(build_response(400, "Failed to process 10th document", <<>>,
                          "10TH_PROCESSING_FAILED"),
           h.db, h.calls)
  ELSE Out(build_response(400, "Failed to process 12th document", <<>>,
                          "12TH_PROCESSING_FAILED"),
           h.db, h.calls)

\* lines 215-241: the 12th document, after the 10th was handled
After12th(h) ==
  IF h.failed # "None" THEN ProcessingFailed(h, "12th") ELSE EducationalResponse(h)

\* lines 203-205: a 10th document that failed ends the request at once
After10th(h, worker_id, file_12th, camera_data_12th, env_12th) ==
  IF h.failed # "None" THEN ProcessingFailed(h, "10th")
  ELSE After12th(HandleClass(h, worker_id, "12th", file_12th, camera_data_12th,
                             env_12th))

upload_educational_documents(store, worker_id, file_10th, file_12th, camera_data_10th, camera_data_12th, env_10th, env_12th) ==
  IF worker_id = ""
  THEN Out(build_response(400, "worker_id is required", <<>>, "MISSING_WORKER_ID"),
           store, <<>>)
  ELSE IF get_worker(store, worker_id).isNone
  THEN Out(build_response(404, "Worker not found", <<>>, "WORKER_NOT_FOUND"),
           store, <<Step("get_worker", "worker")>>)
  ELSE IF ~DocumentGiven(file_10th, camera_data_10th)
          /\ ~DocumentGiven(file_12th, camera_data_12th)
  THEN Out(build_response(400, "At least one document (10th or 12th) is required",
                          <<>>, "MISSING_DOCUMENTS"),
           store, <<Step("get_worker", "worker")>>)
  ELSE After10th(
         HandleClass(Handled(<<>>, store, <<Step("get_worker", "worker")>>,
                             "None"),
                     worker_id, "10th", file_10th, camera_data_10th, env_10th),
         worker_id, file_12th, camera_data_12th, env_12th)

----------------------------------------------------------------------------
(* Inputs of the upload endpoints                                          *)

Rep(c, n) == [i \in 1..n |-> c]

FileNames ==
  {None, <<>>,
   <<"a", ".", "p", "d", "f">>, <<"a", ".", "P", "D", "F">>,
   <<"a", ".", "j", "p", "g">>, <<"b", ".", "J", "p", "e", "g">>,
   <<"a", ".", "p", "n", "g">>, <<".", "p", "n", "g">>,
   <<"a", ".", "t", "x", "t">>, <<"p", "d", "f">>, <<"a", ".">>,
   <<"a", ".", "p", "d", "f", ".", "e", "x", "e">>,
   <<"a", ".", "e", "x", "e", ".", "p", "d", "f">>,
   <<"a", ".", "p", "d", "f", " ">>}

Files == {NoFile} \cup {File(n) : n \in FileNames}

Cameras == {NoCamera, EmptyCamera, Capture(TRUE), Capture(FALSE)}

\* what the LLM returns for a personal document and for a marksheet
PersonalData ==
  [isNone |-> FALSE, has |-> {"name", "date_of_birth", "address"},
   name |-> <<"a", "b">>,
   date_of_birth |-> <<"0", "1", "-", "0", "2", "-", "2", "0", "0", "0">>,
   address |-> None]

MarksheetData ==
  [isNone |-> FALSE, has |-> {"qualification", "board"},
   name |-> None, date_of_birth |-> None]

SufficientText == Rep("a", MinOcrTextLength)

InsufficientTexts ==
  {None, <<>>, Rep("a", 30), Rep(" ", MinOcrTextLength),
   <<" ">> \o Rep("a", MinOcrTextLength - 1) \o <<" ">>}

\* every collaborator answers
GoodEnv(data) ==
  [storage_ok |-> TRUE, ocr_text |-> SufficientText, llm |-> data,
   db_ok |-> TRUE, audit_ok |-> TRUE]

\* at most one of storage, OCR, LLM and database fails
OneFault(data) ==
  {GoodEnv(data), [GoodEnv(data) EXCEPT !.storage_ok = FALSE],
   [GoodEnv(data) EXCEPT !.ocr_text = <<" ">> \o SufficientText],
   [GoodEnv(data) EXCEPT !.llm = NoneDoc],
   [GoodEnv(data) EXCEPT !.llm = EmptyData],
   [GoodEnv(data) EXCEPT !.db_ok = FALSE]}
  \cup {[GoodEnv(data) EXCEPT !.ocr_text = t] : t \in InsufficientTexts}

\* and the extraction log accepts the record or raises
Envs(data) ==
  OneFault(data) \cup {[e EXCEPT !.audit_ok = FALSE] : e \in OneFault(data)}

WorkerIds == {"", "w1", "w2"}

PersonalRequests ==
  [worker_id : WorkerIds, document_file : Files, camera_data : Cameras,
   env : Envs(PersonalData)]

\* the ways a class level's document comes with the request
ClassInputs ==
  {<<NoFile, NoCamera>>, <<File(<<"a", ".", "p", "d", "f">>), NoCamera>>,
   <<File(<<"a", ".", "t", "x", "t">>), NoCamera>>,
   <<NoFile, Capture(TRUE)>>, <<NoFile, Capture(FALSE)>>,
   <<File(<<"a", ".", "t", "x", "t">>), Capture(TRUE)>>}

ClassEnvs ==
  {e \in Envs(MarksheetData) :
     e.ocr_text \in {SufficientText, None, Rep("a", 30)}}

EducationalRequest(worker_id, in10, in12, env_10th, env_12th) ==
  [worker_id |-> worker_id,
   file_10th |-> in10[1], camera_data_10th |-> in10[2],
   file_12th |-> in12[1], camera_data_12th |-> in12[2],
   env_10th |-> env_10th, env_12th |-> env_12th]

EducationalRequests ==
  {EducationalRequest("w1", in10, in12, e10, e12) :
     in10 \in ClassInputs, in12 \in ClassInputs, e10 \in ClassEnvs,
     e12 \in ClassEnvs}
  \cup {EducationalRequest(w, in10, in10, GoodEnv(MarksheetData),
                           GoodEnv(MarksheetData)) :
          w \in {"", "w2"}, in10 \in ClassInputs}

WorkerRow(name, dob, address) ==
  [isNone |-> FALSE, name |-> name, dob |-> dob, address |-> address]

\* the store before the request: worker w1 is registered, with or without
\* personal data from an earlier upload
StoreOf(row) ==
  [workers |-> ("w1" :> row),
   edu |-> ("w1" :> [c \in {"10th", "12th"} |-> NoneDoc]),
   audit |-> <<>>, files |-> <<>>,
   verification |-> ("w1" :> [status |-> "None", errors |-> NoErrors]),
   verification_log |-> <<>>]

InitialRows ==
  {WorkerRow(None, None, None), WorkerRow(<<"b">>, <<>>, <<"b">>)}

InitUpload ==
  /\ pc = "call"
  /\ args \in PersonalRequests \cup EducationalRequests
  /\ ret = None
  /\ calls = <<>>
  /\ db \in {StoreOf(row) : row \in InitialRows}

\* the handler has returned: its response, its calls and the store it left
Served(out) ==
  /\ ret' = out.response
  /\ calls' = out.calls
  /\ db' = out.db
  /\ pc' = "done"
  /\ UNCHANGED args

Call_upload_personal_document ==
  /\ pc = "call"
  /\ DOMAIN args = {"worker_id", "document_file", "camera_data", "env"}
  /\ Served(upload_personal_document(db, args.worker_id, args.document_file,
                                     args.camera_data, args.env))

Call_upload_educational_documents ==
  /\ pc = "call"
  /\ DOMAIN args = {"worker_id", "file_10th", "file_12th", "camera_data_10th",
                    "camera_data_12th", "env_10th", "env_12th"}
  /\ Served(upload_educational_documents(db, args.worker_id, args.file_10th,
                                         args.file_12th, args.camera_data_10th,
                                         args.camera_data_12th, args.env_10th,
                                         args.env_12th))

NextUpload == Call_upload_personal_document \/ Call_upload_educational_documents

SpecUpload == InitUpload /\ [][NextUpload]_vars

----------------------------------------------------------------------------
(* Properties of the upload endpoints                                      *)

DocClasses == {"personal", "10th", "12th"}

Called(fn, class) == \E i \in 1..Len(calls) : calls[i] = Step(fn, class)

\* some collaborator was called for the class level's document
Attempted(class) == \E i \in 1..Len(calls) : calls[i].doc = class

\* the request's file, camera payload and collaborator outcomes for a class
FileOf(class) ==
  IF class = "personal" THEN args.document_file
  ELSE IF class = "10th" THEN args.file_10th ELSE args.file_12th

CameraOf(class) ==
  IF class = "personal" THEN args.camera_data
  ELSE IF class = "10th" THEN args.camera_data_10th ELSE args.camera_data_12th

EnvOf(class) ==
  IF class = "personal" THEN args.env
  ELSE IF class = "10th" THEN args.env_10th ELSE args.env_12th

\* the LLM call of a class
Extractor(class) ==
  IF class = "personal" THEN "extract_personal_data" ELSE "extractor_func"

\* the call that writes the primary or the educational record of a class
RecordWrite(class) ==
  IF class = "personal" THEN "update_worker_data"
  ELSE "update_educational_document_extraction"

FailureKinds == {"format", "decode", "storage", "ocr", "llm", "persistence"}

\* the extension after the last dot, whatever its case, is in the allow-list
ExtensionAllowed(filename) ==
  /\ filename # None
  /\ \E e \in ALLOWED_EXTENSIONS :
       /\ Len(filename) > Len(e)
       /\ filename[Len(filename) - Len(e)] = "."
       /\ lower(SubSeq(filename, Len(filename) - Len(e) + 1, Len(filename))) = e

\* the first stage of a document's pipeline that fails, "none" if none does
KindOf(file, camera, env) ==
  IF CameraGiven(camera) /\ ~camera.decodes THEN "decode"
  ELSE IF ~CameraGiven(camera) /\ ~ExtensionAllowed(file.filename) THEN "format"
  ELSE IF ~env.storage_ok THEN "storage"
  ELSE IF env.ocr_text = None \/ Len(strip(env.ocr_text)) < MinOcrTextLength
  THEN "ocr"
  ELSE IF env.llm \in {NoneDoc, EmptyData} THEN "llm"
  ELSE IF ~env.db_ok THEN "persistence"
  ELSE "none"

FailureKind(class) == KindOf(FileOf(class), CameraOf(class), EnvOf(class))

\* a request with one document whose pipeline fails in the given way
ProbeFile(kind) ==
  IF kind = "decode" THEN NoFile
  ELSE IF kind = "format" THEN File(<<"a", ".", "t", "x", "t">>)
  ELSE File(<<"a", ".", "p", "d", "f">>)

ProbeCamera(kind) == IF kind = "decode" THEN Capture(FALSE) ELSE NoCamera

ProbeEnv(kind, data) ==
  IF kind = "storage" THEN [GoodEnv(data) EXCEPT !.storage_ok = FALSE]
  ELSE IF kind = "ocr" THEN [GoodEnv(data) EXCEPT !.ocr_text = Rep("a", 30)]
  ELSE IF kind = "llm" THEN [GoodEnv(data) EXCEPT !.llm = NoneDoc]
  ELSE IF kind = "persistence" THEN [GoodEnv(data) EXCEPT !.db_ok = FALSE]
  ELSE GoodEnv(data)

BlankStore == StoreOf(WorkerRow(None, None, None))

\* the error code the caller gets when the class's document fails that way
CodeFor(class, kind) ==
  IF class = "personal"
  THEN upload_personal_document(BlankStore, "w1", ProbeFile(kind),
                                ProbeCamera(kind),
                                ProbeEnv(kind, PersonalData)).response.error_code
  ELSE IF class = "10th"
  THEN upload_educational_documents(BlankStore, "w1", ProbeFile(kind), NoFile,
                                    ProbeCamera(kind), NoCamera,
                                    ProbeEnv(kind, MarksheetData),
                                    GoodEnv(MarksheetData)).response.error_code
  ELSE upload_educational_documents(BlankStore, "w1", NoFile, ProbeFile(kind),
                                    NoCamera, ProbeCamera(kind),
                                    GoodEnv(MarksheetData),
                                    ProbeEnv(kind, MarksheetData)).response.error_code

\* the response is a failure whose code no other failure kind of the class has
TypedFailure(class, kind) ==
  /\ ret.status_code # 200
  /\ ret.error_code # "None"
  /\ \A other \in FailureKinds \ {kind} : CodeFor(class, other) # ret.error_code

\* the extraction log's records of a worker and document class
AuditRecords(class) ==
  SelectSeq(db.audit,
            LAMBDA r : r.worker_id = args.worker_id /\ r.document_type = class)

\* OCR was called for the class's document and returned too little text, and
\* the extraction log accepts records
OcrReturnedInsufficient(class) ==
  /\ Called("ocr_to_text", class)
  /\ FailureKind(class) = "ocr"
  /\ EnvOf(class).audit_ok

\* C12: when OCR returns text of fewer than 50 characters once stripped (or
\* none), exactly one record, with status failed and empty structured data, is
\* in the extraction log for the worker and document class, the response is a
\* failure whose code tells the insufficient OCR text from the other failure
\* kinds, the LLM is not called and the class's record is not written
C12_OcrInsufficientText ==
  pc = "done" =>
    \A class \in DocClasses :
      OcrReturnedInsufficient(class) =>
        /\ Len(AuditRecords(class)) = 1
        /\ AuditRecords(class)[1].status = "failed"
        /\ AuditRecords(class)[1].extracted_data = EmptyData
        /\ TypedFailure(class, "ocr")
        /\ ~Called(Extractor(class), class)
        /\ ~Called(RecordWrite(class), class)

\* the request brings the class's document as a file only, and the file's
\* extension is not in the allow-list
UnsupportedFile(class) ==
  /\ FileOf(class).given
  /\ ~CameraGiven(CameraOf(class))
  /\ ~ExtensionAllowed(FileOf(class).filename)

C14_EveryFailureAudited ==
  pc = "done" =>
    \A class \in DocClasses :
      (Attempted(class) /\ FailureKind(class) # "none" /\ EnvOf(class).audit_ok)
        => /\ \E i \in 1..Len(AuditRecords(class)) :
                AuditRecords(class)[i].status = "failed"
           /\ ret.status_code # 200
           /\ ret.error_code # "None"

\* the request is an educational upload for a registered worker that brings
\* both a 10th and a 12th document
BothClassesRequested ==
  /\ "env_10th" \in DOMAIN args
  /\ args.worker_id \in DOMAIN db.workers
  /\ DocumentGiven(args.file_10th, args.camera_data_10th)
  /\ DocumentGiven(args.file_12th, args.camera_data_12th)

\* every stage of the class's pipeline ran
AllStagesRan(class) ==
  /\ Called("ocr_to_text", class)
  /\ Called(Extractor(class), class)
  /\ Called(RecordWrite(class), class)

\* no stage of the class's pipeline fails and its log record is accepted
WouldSucceed(class) == FailureKind(class) = "none" /\ EnvOf(class).audit_ok

\* C15: when both class levels are requested each is processed whatever
\* happens to the other: a failure of the 10th document does not keep the OCR,
\* LLM and persistence stages of the 12th from running, and vice versa
C15_ClassLevelsIndependent ==
  (pc = "done" /\ BothClassesRequested) =>
    \A class \in {"10th", "12th"} :
      /\ Attempted(class)
      /\ WouldSucceed(class) => AllStagesRan(class)

\* the class levels whose data the response returns
ReportedClasses == {ret.data[i].class : i \in 1..Len(ret.data)}

\* the class level's educational record was written by the request
Persisted(class) == db.edu[args.worker_id][class] # NoneDoc

OtherClass(class) == IF class = "10th" THEN "12th" ELSE "10th"

\* C16: when both class levels are requested and exactly one fails, the
\* response reports a failure and still returns the data of the class that
\* succeeded; a class level that was persisted is never missing from a
\* response that reports a failure
C16_PartialFailureReported ==
  (pc = "done" /\ BothClassesRequested) =>
    \A class \in {"10th", "12th"} :
      /\ (WouldSucceed(class) /\ FailureKind(OtherClass(class)) # "none"
          /\ EnvOf(OtherClass(class)).audit_ok)
           => (class \in ReportedClasses /\ ret.error_code # "None")
      /\ (Persisted(class) /\ ret.status_code # 200) => class \in ReportedClasses

\* C17: a failure of a document's pipeline reaches the caller with an error
\* code that no other failure kind of the same upload has
C17_DistinctErrorCodes ==
  pc = "done" =>
    \A class \in DocClasses :
      (Attempted(class) /\ FailureKind(class) # "none" /\ EnvOf(class).audit_ok)
        => TypedFailure(class, FailureKind(class))

----------------------------------------------------------------------------
(* verify_worker_documents_endpoint                                        *)

\* dict(row) of a worker's row: it has the columns name, dob and address,
\* and no key date_of_birth
RowDict(row) ==
  IF row.isNone THEN NoneDoc
  ELSE [isNone |-> FALSE, has |-> {"worker_id", "name", "dob", "address"},
        name |-> row.name, date_of_birth |-> None]

\* crud.get_educational_document: the class level's record, None without one
get_educational_document(store, worker_id, class_level) ==
  IF worker_id \in DOMAIN store.edu THEN store.edu[worker_id][class_level]
  ELSE NoneDoc

\* crud.update_worker_verification_status
update_worker_verification_status(store, worker_id, status, errors) ==
  [store EXCEPT !.verification[worker_id] = [status |-> status, errors |-> errors]]

\* crud.save_verification_log: one entry appended to the verification log
save_verification_log(store, worker_id, comparison_type, details, status) ==
  [store EXCEPT !.verification_log = Append(@,
     [worker_id |-> worker_id, comparison_type |-> comparison_type,
      details |-> details, status |-> status])]

\* the result dict as extract_verification_errors receives it
AsOptional(verification_result) ==
  [isNone |-> FALSE, overall_status |-> verification_result.overall_status,
   comparisons |-> verification_result.comparisons]

\* lines 356-358: one log entry for each comparison, in order
RECURSIVE VerificationLogged(_, _, _, _)
VerificationLogged(store, steps, worker_id, comparisons) ==
  IF comparisons = <<>> THEN [db |-> store, calls |-> steps]
  ELSE VerificationLogged(
         save_verification_log(store, worker_id, Head(comparisons).type,
                               Head(comparisons).details,
                               Head(comparisons).status),
         Append(steps, Step("save_verification_log", Head(comparisons).type)),
         worker_id, Tail(comparisons))

\* lines 361-382: the response for each overall status
VerificationResponse(verification_result) ==
  IF verification_result.overall_status = "verified"
  THEN build_response(200, "All documents verified successfully",
                      verification_result.comparisons, "None")
  ELSE IF verification_result.overall_status = "failed"
  THEN build_response(400, "Document verification failed - see details",
                      verification_result.comparisons, "VERIFICATION_FAILED")
  ELSE build_response(206, "Incomplete verification - missing documents",
                      <<>>, "INCOMPLETE_DATA")

VerificationSaved(logged, verification_result) ==
  Out(VerificationResponse(verification_result), logged.db, logged.calls)

VerificationPersisted_failed_only(store, steps, worker_id, verification_result) ==
  VerificationSaved(
    VerificationLogged(
      update_worker_verification_status(
        store, worker_id, verification_result.overall_status,
        extract_verification_errors(AsOptional(verification_result))),
      Append(steps, Step("update_worker_verification_status", "worker")),
      worker_id, SelectSeq(verification_result.comparisons, IsFailed)),
    verification_result)

\* lines 350-358: the status and the error summary, then the log entries
VerificationPersisted(store, steps, worker_id, verification_result) ==
  VerificationSaved(
    VerificationLogged(
      update_worker_verification_status(
        store, worker_id, verification_result.overall_status,
        extract_verification_errors(AsOptional(verification_result))),
      Append(steps, Step("update_worker_verification_status", "worker")),
      worker_id, verification_result.comparisons),
    verification_result)

\* lines 343-348: a worker without a row is not verified
VerificationOf(store, steps, worker_id, personal, edu_10th, edu_12th) ==
  IF ~DocTruthy(personal)
  THEN Out(build_response(404, "Worker not found", <<>>, "WORKER_NOT_FOUND"),
           store, steps)
  ELSE VerificationPersisted(
         store, steps, worker_id,
         verify_worker_documents(personal, edu_10th, edu_12th, 85).result)

verify_worker_documents_endpoint(store, worker_id) ==
  IF worker_id = ""
  THEN Out(build_response(400, "worker_id is required", <<>>, "MISSING_WORKER_ID"),
           store, <<>>)
  ELSE VerificationOf(store,
                      <<Step("get_worker", "worker"),
                        Step("get_educational_document", "10th"),
                        Step("get_educational_document", "12th")>>,
                      worker_id,
                      RowDict(get_worker(store, worker_id)),
                      get_educational_document(store, worker_id, "10th"),
                      get_educational_document(store, worker_id, "12th"))

----------------------------------------------------------------------------
(* Verification requests: a worker is verified, uploads a personal         *)
(* document and is verified again                                          *)

\* the store with the educational records of worker w1 in place
StoreWith(row, edu_10th, edu_12th) ==
  [StoreOf(row) EXCEPT !.edu["w1"] =
     [c \in {"10th", "12th"} |-> IF c = "10th" THEN edu_10th ELSE edu_12th]]

VerifiedRows == InitialRows \cup {WorkerRow(<<"A", "b">>, <<>>, <<>>)}

\* the personal upload between the two verification requests
UploadsBetween ==
  [worker_id : {"w1"}, document_file : {File(<<"a", ".", "p", "d", "f">>)},
   camera_data : {NoCamera},
   env : {GoodEnv(PersonalData),
          [GoodEnv(PersonalData) EXCEPT !.ocr_text = Rep("a", 30)],
          [GoodEnv(PersonalData) EXCEPT !.db_ok = FALSE]}]

InitVerifyEndpoint ==
  /\ pc = "call"
  /\ args \in [worker_id : WorkerIds, upload : UploadsBetween]
  /\ ret = None
  /\ calls = <<>>
  /\ db \in {StoreWith(row, e10, e12) :
               row \in VerifiedRows, e10 \in VerifyDocs, e12 \in VerifyDocs}

\* a handler of the scenario has returned and the next one is due
ServedThen(out, next) ==
  /\ ret' = out.response
  /\ calls' = out.calls
  /\ db' = out.db
  /\ pc' = next
  /\ UNCHANGED args

Call_verify_worker_documents_endpoint ==
  /\ pc \in {"call", "again"}
  /\ DOMAIN args = {"worker_id", "upload"}
  /\ ServedThen(verify_worker_documents_endpoint(db, args.worker_id),
                IF pc = "call" THEN "verified" ELSE "done")

Call_upload_before_verifying_again ==
  /\ pc = "verified"
  /\ DOMAIN args = {"worker_id", "upload"}
  /\ ServedThen(upload_personal_document(db, args.upload.worker_id,
                                         args.upload.document_file,
                                         args.upload.camera_data,
                                         args.upload.env),
                "again")

NextVerifyEndpoint ==
  Call_verify_worker_documents_endpoint \/ Call_upload_before_verifying_again

SpecVerifyEndpoint == InitVerifyEndpoint /\ [][NextVerifyEndpoint]_vars

\* a verification request is served in this step
VerificationServed ==
  /\ pc \in {"call", "again"}
  /\ pc' \in {"verified", "done"}
  /\ DOMAIN args = {"worker_id", "upload"}

\* what verify_worker_documents returns for the documents now in the store
CurrentVerification ==
  verify_worker_documents(RowDict(db.workers["w1"]), db.edu["w1"]["10th"],
                          db.edu["w1"]["12th"], 85).result

\* the log entries of a result: one for each comparison, in order
LogEntries(worker_id, verification_result) ==
  [i \in 1..Len(verification_result.comparisons) |->
     [worker_id |-> worker_id,
      comparison_type |-> verification_result.comparisons[i].type,
      details |-> verification_result.comparisons[i].details,
      status |-> verification_result.comparisons[i].status]]

\* the number of calls of fn among the calls of the request just served
CallsOf(fn) == Cardinality({i \in 1..Len(calls') : calls'[i].fn = fn})

\* what a verification request of a registered worker leaves behind
VerificationEffects(worker_id, verification_result) ==
  /\ CallsOf("get_worker") = 1
  /\ CallsOf("get_educational_document") = 2
  /\ CallsOf("update_worker_verification_status") = 1
  /\ db'.verification =
       [db.verification EXCEPT ![worker_id] =
          [status |-> verification_result.overall_status,
           errors |-> extract_verification_errors(AsOptional(verification_result))]]
  /\ CallsOf("save_verification_log") = Len(verification_result.comparisons)
  /\ db'.verification_log =
       db.verification_log \o LogEntries(worker_id, verification_result)
  /\ verification_result.overall_status = "incomplete"
       => db'.verification_log = db.verification_log
  /\ db'.workers = db.workers /\ db'.edu = db.edu /\ db'.audit = db.audit

\* C18: a verification request of a registered worker reads the documents now
\* in the store, updates the verification status once, with the overall status
\* computed from them and the error summary of extract_verification_errors,
\* and appends one log entry for each comparison (none when the result is
\* incomplete); for a worker that is not registered the store is left as it was
C18_VerificationPersisted ==
  [][VerificationServed =>
       IF args.worker_id \in DOMAIN db.workers
       THEN VerificationEffects(args.worker_id, CurrentVerification)
       ELSE db' = db]_vars

\* the first request found the personal and the 10th names different, the
\* upload replaced the personal name, and the second request found them equal:
\* each request logged its one comparison
C18_Witness ==
  /\ pc = "done"
  /\ args.worker_id = "w1"
  /\ Len(db.verification_log) = 2
  /\ db.verification_log[1].status = "failed"
  /\ db.verification_log[2].status = "verified"
  /\ db.verification["w1"].status = "verified"


\* ---------------------------------------------------------------------------
\* services/document_verification.py: the lenient two-document verifier
\* ---------------------------------------------------------------------------

LowerLetters ==
  {"a", "b", "c", "d", "e", "f", "g", "h", "i", "j", "k", "l", "m",
   "n", "o", "p", "q", "r", "s", "t", "u", "v", "w", "x", "y", "z"}

\* the class \w of the regular expressions
IsWordChar(c) ==
  c \in LowerLetters \/ c \in DOMAIN Lowercase \/ IsDigit(c) \/ c = "_"

\* the alternatives of the title pattern, in the order the pattern lists them
Titles ==
  << <<"m", "r">>, <<"m", "r", "s">>, <<"m", "s">>, <<"d", "r">>,
     <<"p", "r", "o", "f">>, <<"s", "r">>, <<"j", "r">> >>

\* \b between positions i-1 and i of s
WordBoundary(s, i) ==
  LET before == i > 1 /\ i - 1 <= Len(s) /\ IsWordChar(s[i - 1])
      after == i >= 1 /\ i <= Len(s) /\ IsWordChar(s[i])
  IN  before # after

\* title t stands at position i of s as \b t \b
TitleAt(s, i, t) ==
  /\ i + Len(t) - 1 <= Len(s)
  /\ SubSeq(s, i, i + Len(t) - 1) = t
  /\ WordBoundary(s, i)
  /\ WordBoundary(s, i + Len(t))

\* length of the match of \b(mr|mrs|ms|dr|prof|sr|jr)\b\.? at position i, 0 if none
TitleMatchLen(s, i) ==
  LET found == {k \in DOMAIN Titles : TitleAt(s, i, Titles[k])}
  IN  IF found = {} THEN 0
      ELSE LET k == CHOOSE k \in found : \A j \in found : k <= j
               n == Len(Titles[k])
           IN  IF i + n <= Len(s) /\ s[i + n] = "." THEN n + 1 ELSE n

RECURSIVE RemoveTitlesFrom(_, _)
\* re.sub(title pattern, '', s), scanning from position i
RemoveTitlesFrom(s, i) ==
  IF i > Len(s) THEN <<>>
  ELSE IF TitleMatchLen(s, i) > 0 THEN RemoveTitlesFrom(s, i + TitleMatchLen(s, i))
  ELSE <<s[i]>> \o RemoveTitlesFrom(s, i + 1)

\* re.sub(r'\s+', ' ', name.strip()).lower()
CollapseSpaces(name) == lower(join(split(strip(name))))

normalize_name(name) ==
  IF ~Truthy(name) THEN <<>>
  ELSE strip(RemoveTitlesFrom(CollapseSpaces(name), 1))

\* (first_name, last_name)
extract_first_last_name(name) ==
  LET parts == split(OrEmpty(name))
  IN  IF Len(parts) = 0 THEN << <<>>, <<>> >>
      ELSE IF Len(parts) = 1 THEN <<parts[1], <<>> >>
      ELSE <<parts[1], parts[Len(parts)]>>

\* an f-string message: its fixed text and the values it formats
Message(text, personal, edu) == [text |-> text, personal |-> personal, edu |-> edu]

Compared(match, message) == [match |-> match, message |-> message]

\* set(normalized.split())
WordSet(normalized) == {split(normalized)[i] : i \in 1..Len(split(normalized))}

\* the first-or-last test without the emptiness guards
FirstOrLastMatches_empty_ok(personal, edu) ==
  personal[1] = edu[1] \/ personal[2] = edu[2]

FirstOrLastMatches(personal, edu) ==
  \/ personal[1] # <<>> /\ personal[1] = edu[1]
  \/ personal[2] # <<>> /\ personal[2] = edu[2]

NamesCompared(personal_name, edu_name, personal_normalized, edu_normalized) ==
  IF personal_normalized = edu_normalized
  THEN Compared(TRUE, Message("Names match", personal_name, edu_name))
  ELSE IF \/ WordSet(personal_normalized) \subseteq WordSet(edu_normalized)
          \/ WordSet(edu_normalized) \subseteq WordSet(personal_normalized)
  THEN Compared(TRUE, Message("Names partially match", personal_name, edu_name))
  ELSE IF FirstOrLastMatches(extract_first_last_name(personal_normalized),
                             extract_first_last_name(edu_normalized))
  THEN Compared(TRUE, Message("First or last name matches", personal_name, edu_name))
  ELSE Compared(FALSE, Message("Name MISMATCH", personal_name, edu_name))

NamesStripped(personal_name, edu_name) ==
  IF personal_name = <<>> /\ edu_name = <<>>
  THEN Compared(TRUE, Message("Name not present in both documents (acceptable)", <<>>, <<>>))
  ELSE IF personal_name = <<>> \/ edu_name = <<>>
  THEN Compared(TRUE, Message("Name not present in one document (acceptable)", <<>>, <<>>))
  ELSE NamesCompared(personal_name, edu_name,
                     normalize_name(personal_name), normalize_name(edu_name))

compare_names(personal_name, edu_name) ==
  NamesStripped(strip(OrEmpty(personal_name)), strip(OrEmpty(edu_name)))

DobsStripped(personal_dob, edu_dob) ==
  IF personal_dob = <<>> /\ edu_dob = <<>>
  THEN Compared(TRUE, Message("DOB not present in both documents (acceptable)", <<>>, <<>>))
  ELSE IF personal_dob = <<>> \/ edu_dob = <<>>
  THEN Compared(TRUE, Message("DOB not present in one document (acceptable)", <<>>, <<>>))
  ELSE IF normalize_dob(personal_dob) = normalize_dob(edu_dob)
  THEN Compared(TRUE, Message("DOBs match", personal_dob, personal_dob))
  ELSE Compared(FALSE, Message("DOB MISMATCH", personal_dob, edu_dob))

compare_dobs(personal_dob, edu_dob) ==
  DobsStripped(strip(OrEmpty(personal_dob)), strip(OrEmpty(edu_dob)))

\* a dict with the keys in `has`; None stands for no dict at all
DataDict(has, name, dob) ==
  [isNone |-> FALSE, has |-> has,
   name |-> IF "name" \in has THEN name ELSE None,
   dob |-> IF "dob" \in has THEN dob ELSE None]

NoData == [isNone |-> TRUE, has |-> {}, name |-> None, dob |-> None]

\* data.get(key, '')
GetOrEmpty(data, key) == IF key \in data.has THEN data[key] ELSE <<>>

\* the call raised instead of returning
Raises(exc) == [raises |-> exc]

PersonalNotAvailable ==
  [verified |-> FALSE, verification_status |-> "not_applicable",
   error_message |-> <<Message("Personal data not available for verification", <<>>, <<>>)>>]

NotApplicable ==
  [verified |-> TRUE, verification_status |-> "not_applicable", error_message |-> None]

\* " | ".join(error_parts)
ErrorParts(name, dob) ==
  (IF name.match THEN <<>> ELSE <<name.message>>) \o
  (IF dob.match THEN <<>> ELSE <<dob.message>>)

Verdict(name, dob) ==
  IF name.match /\ dob.match
  THEN [verified |-> TRUE, name_match |-> name.match, name_message |-> name.message,
        dob_match |-> dob.match, dob_message |-> dob.message,
        verification_status |-> "matched", error_message |-> None]
  ELSE [verified |-> FALSE, name_match |-> name.match, name_message |-> name.message,
        dob_match |-> dob.match, dob_message |-> dob.message,
        verification_status |-> "mismatched", error_message |-> ErrorParts(name, dob),
        reupload_required |-> TRUE]

FieldsCompared(personal_name, personal_dob, edu_name, edu_dob) ==
  IF edu_name = <<>> /\ edu_dob = <<>> THEN NotApplicable
  ELSE Verdict(compare_names(personal_name, edu_name),
               compare_dobs(personal_dob, edu_dob))

\* None has no strip(): .get(key, '').strip() raises on a key that holds None
EducationalFields(personal_name, personal_dob, educational_data) ==
  IF ~DocTruthy(educational_data) THEN NotApplicable
  ELSE IF \/ GetOrEmpty(educational_data, "name") = None
          \/ GetOrEmpty(educational_data, "dob") = None
  THEN Raises("AttributeError")
  ELSE FieldsCompared(personal_name, personal_dob,
                      strip(GetOrEmpty(educational_data, "name")),
                      strip(GetOrEmpty(educational_data, "dob")))

verify_documents(personal_data, educational_data) ==
  IF ~DocTruthy(personal_data) THEN PersonalNotAvailable
  ELSE IF \/ GetOrEmpty(personal_data, "name") = None
          \/ GetOrEmpty(personal_data, "dob") = None
  THEN Raises("AttributeError")
  ELSE EducationalFields(strip(GetOrEmpty(personal_data, "name")),
                         strip(GetOrEmpty(personal_data, "dob")),
                         educational_data)

\* names the extractors can return: null, blank, with titles, reordered, disjoint
LenientNames ==
  {None, <<>>, <<" ">>,
   <<"a", " ", "b">>, <<"A", " ", " ", "b", " ">>, <<"b">>, <<"b", " ", "a">>,
   <<"a", " ", "c">>, <<"c", " ", "b">>, <<"c", " ", "d">>, <<"c">>,
   <<"J", "r", ".", " ", "c">>, <<"d", "r", " ", "a", " ", "b">>,
   <<"d", "r", "a">>, <<"m", "r">>}

LenientDobs ==
  {None, <<>>, <<" ">>,
   <<"0", "1", "-", "0", "2", "-", "2", "0", "0", "0">>,
   <<"1", "/", "2", "/", "2", "0", "0", "0">>,
   <<"0", "1", "0", "2", "2", "0", "0", "0">>,
   <<"0", "2", "-", "0", "1", "-", "2", "0", "0", "0">>,
   <<"2", "0", "0", "0", "-", "0", "2", "-", "0", "1">>}

DataKeys == {"name", "dob", "address"}

DataDicts ==
  {NoData} \cup
  {DataDict(has, n, d) : has \in SUBSET DataKeys, n \in LenientNames, d \in LenientDobs}

InitLenient ==
  /\ pc = "call"
  /\ args \in [personal_data : DataDicts, educational_data : DataDicts]
  /\ ret = None
  /\ calls = <<>>
  /\ db = NoDb

Call_verify_documents ==
  /\ pc = "call"
  /\ DOMAIN args = {"personal_data", "educational_data"}
  /\ ret' = verify_documents(args.personal_data, args.educational_data)
  /\ calls' = <<"verify_documents">>
  /\ pc' = "done"
  /\ UNCHANGED <<args, db>>

NextLenient == Call_verify_documents

SpecLenient == InitLenient /\ [][NextLenient]_vars

VerificationStatuses == {"matched", "mismatched", "not_applicable"}

\* the field is absent: no key, null, or blank
Absent(data, key) == data.isNone \/ strip(OrEmpty(GetOrEmpty(data, key))) = <<>>

\* the field is non-empty on both sides and the two values do not match
Conflict(key) ==
  /\ ~Absent(args.personal_data, key)
  /\ ~Absent(args.educational_data, key)
  /\ IF key = "name"
     THEN ~compare_names(args.personal_data.name, args.educational_data.name).match
     ELSE ~compare_dobs(args.personal_data.dob, args.educational_data.dob).match

Returned == pc = "done" /\ "verification_status" \in DOMAIN ret

\* C19: verify_documents always returns a verification_status among matched,
\* mismatched and not_applicable; it is mismatched only when the name or the
\* DOB is non-empty on both sides and the two values do not match, so a field
\* absent on either side never causes mismatched; and it is not_applicable
\* when the educational data has neither a name nor a DOB.
C19_LenientStatus ==
  pc = "done" =>
    /\ Returned
    /\ ret.verification_status \in VerificationStatuses
    /\ ret.verification_status = "mismatched" => Conflict("name") \/ Conflict("dob")
    /\ (Absent(args.educational_data, "name") /\ Absent(args.educational_data, "dob"))
         => ret.verification_status = "not_applicable"


----------------------------------------------------------------------------
(* An upload request and a verification request of the same worker, each   *)
(* served statement by statement, in any interleaving                      *)

\* the documents the store holds before the two requests
StoreBefore ==
  StoreWith(args.before.personal, args.before.edu_10th, args.before.edu_12th)

IsPersonalUpload == "document_file" \in DOMAIN args.upload

\* what the upload handler does from its first call to its last: the worker's
\* documents are written by this request alone, so its calls and the records
\* it writes do not depend on where the verification request stands
UploadPlan ==
  IF IsPersonalUpload
  THEN upload_personal_document(StoreBefore, args.upload.worker_id,
                                args.upload.document_file,
                                args.upload.camera_data, args.upload.env)
  ELSE upload_educational_documents(StoreBefore, args.upload.worker_id,
                                    args.upload.file_10th, args.upload.file_12th,
                                    args.upload.camera_data_10th,
                                    args.upload.camera_data_12th,
                                    args.upload.env_10th, args.upload.env_12th)

FilesOf(store, class) == SelectSeq(store.files, LAMBDA f : f.doc_type = class)

AuditOf(store, class) == SelectSeq(store.audit, LAMBDA r : r.document_type = class)

\* the effect on the store of one call of the upload handler: each crud
\* function runs one statement and commits it
CallEffect(store, plan, worker_id, step) ==
  IF step.fn \in {"save_uploaded_file", "save_pil_image_to_file"}
  THEN [store EXCEPT !.files = @ \o FilesOf(plan.db, step.doc)]
  ELSE IF step.fn = "save_document_extraction"
  THEN [store EXCEPT !.audit = @ \o AuditOf(plan.db, step.doc)]
  ELSE IF step.fn = "update_worker_data"
  THEN [store EXCEPT !.workers = plan.db.workers]
  ELSE IF step.fn = "update_educational_document_extraction"
  THEN [store EXCEPT !.edu[worker_id][step.doc] = plan.db.edu[worker_id][step.doc]]
  ELSE store

\* a statement in the order the two requests ran them
Ran(request, step) == [by |-> request, fn |-> step.fn, doc |-> step.doc]

\* the documents as the verification request has read them so far
Snapshot(personal, edu_10th, edu_12th, response) ==
  [personal |-> personal, edu_10th |-> edu_10th, edu_12th |-> edu_12th,
   response |-> response]

NotRead == [isNone |-> TRUE, name |-> None, dob |-> None, address |-> None]

InterleavedUploads ==
  [worker_id : {"w1"},
   document_file : {NoFile, File(<<"a", ".", "p", "d", "f">>)},
   camera_data : {NoCamera, Capture(TRUE)},
   env : {GoodEnv(PersonalData),
          [GoodEnv(PersonalData) EXCEPT !.llm = NoneDoc],
          [GoodEnv(PersonalData) EXCEPT !.db_ok = FALSE],
          [GoodEnv(PersonalData) EXCEPT !.audit_ok = FALSE]}]
  \cup
  {EducationalRequest("w1", in10, in12, e10, e12) :
     in10 \in {<<NoFile, NoCamera>>, <<File(<<"a", ".", "p", "d", "f">>), NoCamera>>},
     in12 \in {<<NoFile, NoCamera>>, <<NoFile, Capture(TRUE)>>},
     e10 \in {GoodEnv(MarksheetData), [GoodEnv(MarksheetData) EXCEPT !.db_ok = FALSE]},
     e12 \in {GoodEnv(MarksheetData), [GoodEnv(MarksheetData) EXCEPT !.ocr_text = None]}}

RecordsBefore ==
  [personal : InitialRows,
   edu_10th : {NoneDoc, DictDoc({"name"}, <<"b">>, None)},
   edu_12th : {DictDoc({"name"}, <<"a", "b">>, None)}]

InitInterleave ==
  /\ args \in [worker_id : {"w1"}, upload : InterleavedUploads,
               before : RecordsBefore]
  /\ pc = [upload |-> 0, verify |-> "get_worker"]
  /\ ret = Snapshot(NotRead, NoneDoc, NoneDoc, InternalError)
  /\ calls = <<>>
  /\ db = StoreBefore

\* the upload request runs its next call
Upload_next_call ==
  /\ DOMAIN args = {"worker_id", "upload", "before"}
  /\ pc.upload < Len(UploadPlan.calls)
  /\ db' = CallEffect(db, UploadPlan, args.upload.worker_id,
                      UploadPlan.calls[pc.upload + 1])
  /\ calls' = Append(calls, Ran("upload", UploadPlan.calls[pc.upload + 1]))
  /\ pc' = [pc EXCEPT !.upload = @ + 1]
  /\ UNCHANGED <<args, ret>>

\* line 339
Verify_get_worker ==
  /\ DOMAIN args = {"worker_id", "upload", "before"}
  /\ pc.verify = "get_worker"
  /\ ret' = [ret EXCEPT !.personal = get_worker(db, args.worker_id)]
  /\ calls' = Append(calls, Ran("verify", Step("get_worker", "personal")))
  /\ pc' = [pc EXCEPT !.verify = "10th"]
  /\ UNCHANGED <<args, db>>

\* lines 340-341
Verify_get_educational_document ==
  /\ DOMAIN args = {"worker_id", "upload", "before"}
  /\ pc.verify \in {"10th", "12th"}
  /\ ret' = IF pc.verify = "10th"
            THEN [ret EXCEPT !.edu_10th =
                    get_educational_document(db, args.worker_id, "10th")]
            ELSE [ret EXCEPT !.edu_12th =
                    get_educational_document(db, args.worker_id, "12th")]
  /\ calls' = Append(calls, Ran("verify", Step("get_educational_document", pc.verify)))
  /\ pc' = [pc EXCEPT !.verify = IF @ = "10th" THEN "12th" ELSE "verify"]
  /\ UNCHANGED <<args, db>>

VerifiedThen(out) ==
  /\ ret' = [ret EXCEPT !.response = out.response]
  /\ db' = out.db
  /\ calls' = Append(calls, Ran("verify", Step("verify_worker_documents", "worker")))
  /\ pc' = [pc EXCEPT !.verify = "done"]
  /\ UNCHANGED args

\* lines 343-382: the documents read are compared and the result is persisted
Verify_compare ==
  /\ DOMAIN args = {"worker_id", "upload", "before"}
  /\ pc.verify = "verify"
  /\ VerifiedThen(VerificationOf(db, <<>>, args.worker_id, RowDict(ret.personal),
                                 ret.edu_10th, ret.edu_12th))

NextInterleave ==
  \/ Upload_next_call
  \/ Verify_get_worker
  \/ Verify_get_educational_document
  \/ Verify_compare

SpecInterleave == InitInterleave /\ [][NextInterleave]_vars

RecordSlots == {"personal", "edu_10th", "edu_12th"}

ClassOfSlot(slot) ==
  IF slot = "personal" THEN "personal" ELSE IF slot = "edu_10th" THEN "10th" ELSE "12th"

\* the statements that read and that write a document's record
ReadOf(slot) ==
  IF slot = "personal" THEN Ran("verify", Step("get_worker", "personal"))
  ELSE Ran("verify", Step("get_educational_document", ClassOfSlot(slot)))

WriteOf(slot) ==
  IF slot = "personal" THEN Ran("upload", Step("update_worker_data", "personal"))
  ELSE Ran("upload", Step("update_educational_document_extraction", ClassOfSlot(slot)))

HasRun(statement) == \E i \in 1..Len(calls) : calls[i] = statement

RanBefore(first, second) ==
  \E i, j \in 1..Len(calls) : i < j /\ calls[i] = first /\ calls[j] = second

\* the record's state before the upload persists the document
RecordBefore(slot) == args.before[slot]

\* the data the upload request extracted for the document
ExtractedFor(slot) ==
  IF slot = "personal" THEN args.upload.env.llm
  ELSE IF slot = "edu_10th" THEN args.upload.env_10th.llm
  ELSE args.upload.env_12th.llm

\* the record's state after the upload has persisted the document
RecordAfter(slot) ==
  IF slot = "personal"
  THEN WorkerRow(OrEmpty(Get(ExtractedFor(slot), "name")),
                 OrEmpty(Get(ExtractedFor(slot), "date_of_birth")),
                 OrEmpty(Get(ExtractedFor(slot), "address")))
  ELSE ExtractedFor(slot)

\* the database accepted the write of the document's record
WriteCommitted(slot) ==
  IF slot = "personal" THEN args.upload.env.db_ok
  ELSE IF slot = "edu_10th" THEN args.upload.env_10th.db_ok
  ELSE args.upload.env_12th.db_ok

\* C20: in any interleaving of an upload request and a verification request of
\* the same worker, each document's record as the verification request read it
\* is entirely the record before the upload persisted that document, when the
\* read ran before the write or the write was not committed, or entirely the
\* record after it, when the read ran after the committed write; the
\* comparison is made on the records so read.
C20_NoPartialRecord ==
  \A slot \in RecordSlots :
    HasRun(ReadOf(slot)) =>
      /\ ret[slot] = IF RanBefore(WriteOf(slot), ReadOf(slot)) /\ WriteCommitted(slot)
                     THEN RecordAfter(slot)
                     ELSE RecordBefore(slot)
      /\ pc.verify = "done" =>
           ret.response = VerificationOf(db, <<>>, args.worker_id,
                                         RowDict(ret.personal), ret.edu_10th,
                                         ret.edu_12th).response

\* the verification request read the worker's row between the upload's UPDATE
\* and the upload's log record, and read the new row whole
C20_Witness ==
  /\ RanBefore(WriteOf("personal"), ReadOf("personal"))
  /\ ~HasRun(Ran("upload", Step("save_document_extraction", "personal")))
  /\ ret.personal = RecordAfter("personal")
  /\ ret.personal # RecordBefore("personal")
  /\ pc.verify = "done"


----------------------------------------------------------------------------
(* Claims on the orchestrator's defensive branch                           *)

\* C21: verify_worker_documents returns overall_status incomplete if and only
\* if documents_count is below 2: once the count guard has passed at least one
\* comparison is performed, so the branch that sets incomplete for zero
\* comparisons is never taken.
C21_IncompleteIffFewerThanTwo ==
  pc = "done" =>
    /\ ret.overall_status = "incomplete" <=> ret.documents_count < 2
    /\ ret.documents_count >= 2 => Len(ret.comparisons) >= 1
    /\ ret.documents_count = documents_count(args.personal, args.edu_10th,
                                             args.edu_12th)

\* two documents and an empty dict: the guard passes, one comparison runs
C21_Witness ==
  /\ pc = "done"
  /\ ret.documents_count = 2
  /\ Len(ret.comparisons) = 1
  /\ ret.overall_status # "incomplete"
  /\ ~args.edu_12th.isNone /\ ~DocTruthy(args.edu_12th)


----------------------------------------------------------------------------
(* Claims on the order of the pipeline's stages                            *)

\* where the call stands among the request's calls, 0 if it was not made
Position(fn, class) ==
  IF Called(fn, class)
  THEN CHOOSE i \in 1..Len(calls) : calls[i] = Step(fn, class)
  ELSE 0

\* the call that checks the document's input and the call that stores it
ValidationCall(class) ==
  IF CameraGiven(CameraOf(class)) THEN "convert_camera_to_image"
  ELSE "validate_document_format"

StorageCall(class) ==
  IF CameraGiven(CameraOf(class)) THEN "save_pil_image_to_file"
  ELSE "save_uploaded_file"

\* the calls of a document's pipeline, stage by stage
StageCalls(class) ==
  <<ValidationCall(class), StorageCall(class), "ocr_to_text", Extractor(class),
    RecordWrite(class)>>

\* the stage's own outcome: the input is valid, the file was stored, the OCR
\* text is sufficient, the LLM returned data, the extraction log took the record
StagePassed(class) ==
  <<IF CameraGiven(CameraOf(class)) THEN CameraOf(class).decodes
    ELSE ExtensionAllowed(FileOf(class).filename),
    EnvOf(class).storage_ok,
    ~OcrInsufficient(EnvOf(class).ocr_text),
    DocTruthy(EnvOf(class).llm),
    TRUE>>

RequestClasses == IF "env" \in DOMAIN args THEN {"personal"} ELSE {"10th", "12th"}

\* C22: the stages of a document's pipeline run in the order validation,
\* storage, OCR, LLM, record write: a stage's call is made only after the call
\* of the stage before it, and only if that stage passed (OCR after the input
\* was validated and stored, the LLM after OCR returned sufficient text, the
\* record write after the LLM returned structured data); once a stage fails no
\* later stage of the document runs, and no call is made twice.
C22_StagesInOrder ==
  pc = "done" =>
    \A class \in RequestClasses :
      /\ \A k \in 2..5 :
           Called(StageCalls(class)[k], class) =>
             /\ Called(StageCalls(class)[k - 1], class)
             /\ Position(StageCalls(class)[k - 1], class)
                  < Position(StageCalls(class)[k], class)
             /\ StagePassed(class)[k - 1]
      /\ \A k \in 1..4 :
           (Called(StageCalls(class)[k], class) /\ ~StagePassed(class)[k]) =>
             \A later \in (k + 1)..5 : ~Called(StageCalls(class)[later], class)
      /\ \A i, j \in 1..Len(calls) : calls[i] = calls[j] => i = j

\* an educational request whose two documents, one a file and one a camera
\* capture, both went through the five stages
C22_Witness ==
  /\ pc = "done"
  /\ RequestClasses = {"10th", "12th"}
  /\ \A class \in RequestClasses :
       \A k \in 1..5 : Called(StageCalls(class)[k], class)
  /\ CameraGiven(CameraOf("12th")) /\ ~CameraGiven(CameraOf("10th"))
  /\ Len(db.files) = 2


----------------------------------------------------------------------------
(* Claims on the input of an upload                                        *)

\* the document comes as a file, as a camera payload, as both or as neither
InputsGiven(class) ==
  (IF FileOf(class).given THEN 1 ELSE 0)
    + (IF CameraGiven(CameraOf(class)) THEN 1 ELSE 0)

\* nothing was stored and no collaborator was called for the document
NothingDone(class) ==
  /\ ~Attempted(class)
  /\ \A i \in 1..Len(db.files) : db.files[i].doc_type # class
  /\ \A i \in 1..Len(db.audit) : db.audit[i].document_type # class

\* C23: a document is processed only when exactly one of the file upload and
\* the camera payload is provided for it; when neither or both are provided
\* nothing is stored and no collaborator is called for it, and a request that
\* provides both is answered with a failure.
C23_ExactlyOneInput ==
  pc = "done" =>
    \A class \in RequestClasses :
      /\ InputsGiven(class) # 1 => NothingDone(class)
      /\ InputsGiven(class) = 2 => ret.status_code # 200


\* the camera payload of the class's document was handed to
\* convert_camera_to_image and did not decode
DecodeFailed(class) ==
  /\ Called("convert_camera_to_image", class)
  /\ convert_camera_to_image(CameraOf(class)).error # "None"

\* C24: when the camera payload of a document does not decode, in the personal
\* and in the educational upload alike, the caller gets a failure response with
\* an error code whose message is the error message that
\* convert_camera_to_image returned.
C24_DecodeErrorSurfaced ==
  pc = "done" =>
    \A class \in RequestClasses :
      DecodeFailed(class) =>
        /\ ret.status_code # 200
        /\ ret.error_code # "None"
        /\ ret.message = convert_camera_to_image(CameraOf(class)).error


----------------------------------------------------------------------------
(* compare_names called on two names, then on the same names swapped       *)

ComparedNames == LenientNames \cup Strings(MaxLen)

InitNames ==
  /\ pc = "call"
  /\ args \in [personal_name : ComparedNames, edu_name : ComparedNames]
  /\ ret = None
  /\ calls = <<>>
  /\ db = NoDb

Call_compare_names ==
  /\ pc = "call"
  /\ DOMAIN args = {"personal_name", "edu_name"}
  /\ ret' = compare_names(args.personal_name, args.edu_name)
  /\ calls' = <<"compare_names">>
  /\ pc' = "done"
  /\ UNCHANGED <<args, db>>

\* the caller compares the two names the other way round
Call_compare_names_swapped ==
  /\ pc = "done"
  /\ DOMAIN args = {"personal_name", "edu_name"}
  /\ calls = <<"compare_names">>
  /\ ret' = compare_names(args.edu_name, args.personal_name)
  /\ calls' = <<"compare_names", ret>>
  /\ pc' = "swapped"
  /\ UNCHANGED <<args, db>>

NextNames == Call_compare_names \/ Call_compare_names_swapped

SpecNames == InitNames /\ [][NextNames]_vars

\* the name is non-empty once None is read as "" and blanks are stripped
NonEmptyName(name) == strip(OrEmpty(name)) # <<>>

\* the tokens of the normalized name
Tokens(name) == split(normalize_name(strip(name)))

TokenSet(name) == {Tokens(name)[i] : i \in 1..Len(Tokens(name))}

\* the rule of the lenient matcher, on the tokens of the two names
LenientRule(name1, name2) ==
  \/ normalize_name(strip(name1)) = normalize_name(strip(name2))
  \/ TokenSet(name1) \subseteq TokenSet(name2)
  \/ TokenSet(name2) \subseteq TokenSet(name1)
  \/ /\ Tokens(name1) # <<>> /\ Tokens(name2) # <<>>
     /\ \/ Tokens(name1)[1] = Tokens(name2)[1]
        \/ Tokens(name1)[Len(Tokens(name1))] = Tokens(name2)[Len(Tokens(name2))]

----------------------------------------------------------------------------
(* Claims on what an upload leaves in the store                            *)

\* a personal upload is served in this step
PersonalUploadServed ==
  /\ pc = "call" /\ pc' = "done"
  /\ "env" \in DOMAIN args

\* C26: a personal upload answered with a failure (any status other than 200,
\* the internal error of a failed extraction-log append included) leaves the
\* worker's row (name, dob, address) as it was before the request.
C26_FailureKeepsRecord ==
  [][(PersonalUploadServed /\ ret'.status_code # 200) => db'.workers = db.workers]_vars


\* the record that persisting the extracted data of a document leaves
RecordOf(class, extracted_data) ==
  IF class = "personal"
  THEN WorkerRow(OrEmpty(Get(extracted_data, "name")),
                 OrEmpty(Get(extracted_data, "date_of_birth")),
                 OrEmpty(Get(extracted_data, "address")))
  ELSE extracted_data

\* the store holds the record of the worker's document of that class
StoredRecord(worker_id, class) ==
  IF class = "personal" THEN db.workers[worker_id]
  ELSE db.edu[worker_id][class]

\* C27: every record of the extraction log with status success belongs to a
\* document whose primary or educational record was written: the record write
\* was called for it and the store holds the data the log record carries.
C27_SuccessAuditMeansPersisted ==
  pc = "done" =>
    \A i \in 1..Len(db.audit) :
      db.audit[i].status = "success" =>
        /\ Called(RecordWrite(db.audit[i].document_type), db.audit[i].document_type)
        /\ StoredRecord(db.audit[i].worker_id, db.audit[i].document_type)
             = RecordOf(db.audit[i].document_type, db.audit[i].extracted_data)


----------------------------------------------------------------------------
(* Claims on skipped sub-matches                                           *)

SubMatches == {"name_match", "dob_match"}

\* the statuses of the sub-matches of all the comparisons of the result
SubMatchStatusesOf(result) ==
  {result.comparisons[i].details[sub].status :
     i \in 1..Len(result.comparisons), sub \in SubMatches}

\* C28: verify_worker_documents returns overall_status verified only if at
\* least one name or DOB sub-match of its comparisons has status PASSED: a
\* document set whose sub-matches are all SKIPPED is not reported as verified.
C28_VerifiedNeedsPassed ==
  pc = "done" =>
    (ret.overall_status = "verified" => "PASSED" \in SubMatchStatusesOf(ret))

\* C28, amended: verify_worker_documents returns overall_status verified if
\* and only if at least one comparison was performed and no sub-match of any
\* comparison has status FAILED; a SKIPPED sub-match counts as passed, so a
\* set of at least two documents whose sub-matches are all SKIPPED is reported
\* as verified.
C28_VerifiedUnlessFailed ==
  pc = "done" =>
    /\ ret.overall_status = "verified" <=>
         /\ Len(ret.comparisons) >= 1
         /\ "FAILED" \notin SubMatchStatusesOf(ret)
    /\ SubMatchStatusesOf(ret) = {"SKIPPED"} => ret.overall_status = "verified"

\* three documents without a name or a DOB in common: every sub-match of the
\* three comparisons is SKIPPED and the result is verified
C28_Witness ==
  /\ pc = "done"
  /\ Len(ret.comparisons) = 3
  /\ SubMatchStatusesOf(ret) = {"SKIPPED"}
  /\ ret.overall_status = "verified"


----------------------------------------------------------------------------
(* Claims on the comparator's algebra                                      *)

\* C29: compare_documents is reflexive: a non-empty document compared with
\* itself, at any threshold up to 1.0, gives status verified and no issues,
\* whatever the text of its name and of its date of birth.
C29_CompareReflexive ==
  (pc = "done" /\ DocTruthy(args.doc1) /\ args.doc2 = args.doc1
     /\ args.name_threshold <= 100)
    => (ret.status = "verified" /\ ret.issues = <<>>)


\* the kinds of the issues a result should list: one for a FAILED name
\* sub-match, then one for a FAILED DOB sub-match
ExpectedIssueKinds(result) ==
  (IF result.name_match.status = "FAILED" THEN <<"Name mismatch">> ELSE <<>>)
    \o (IF result.dob_match.status = "FAILED" THEN <<"DOB mismatch">> ELSE <<>>)

\* C30: every result of compare_documents has status failed if and only if its
\* issues are not empty; when both documents are present the issues are one
\* for each FAILED sub-match (0, 1 or 2 of them), the name issue ahead of the
\* DOB issue.
C30_IssuesMatchFailures ==
  pc = "done" =>
    /\ ret.status = "failed" <=> ret.issues # <<>>
    /\ BothPresent =>
         /\ Len(ret.issues) = Len(ExpectedIssueKinds(ret))
         /\ \A i \in 1..Len(ret.issues) :
              ret.issues[i].kind = ExpectedIssueKinds(ret)[i]

\* both sub-matches failed: two issues, the name issue first
C30_Witness ==
  /\ pc = "done"
  /\ BothPresent
  /\ ret.name_match.status = "FAILED"
  /\ ret.dob_match.status = "FAILED"
  /\ Len(ret.issues) = 2
  /\ ret.issues[1].kind = "Name mismatch"
  /\ ret.issues[2].kind = "DOB mismatch"

====
